---- MODULE Spec2Model ----
(***************************************************************************)
(* Storage services of langflow: the StorageService base class, the local  *)
(* filesystem backend (LocalStorageService) and the S3 backend             *)
(* (S3StorageService).                                                     *)
(*                                                                         *)
(* Strings are sequences of one-character strings, byte payloads are       *)
(* sequences of byte values, Python values that the code inspects for      *)
(* their type or truth value are records [type, val].                      *)
(***************************************************************************)
EXTENDS Integers, Sequences, FiniteSets, TLC

\* ------------------------------------------------------------------ bounds
\* longest byte payload
MaxLen == 2
\* number of storage calls of one run
MaxOps == 2

\* one payload of every length: n bytes of value n, so that payloads differ in
\* length and in content
Payloads == {[k \in 1..n |-> n] : n \in 0..MaxLen}

\* ----------------------------------------------------------------- strings
Sep == "/"
Identifiers == {<<"a">>, <<"a", "b">>}
\* an identifier with a path separator in it: a/b
NestedIdentifiers == {<<"a", "/", "b">>}
FileNames == {<<"f">>, <<"g">>}

StartsWith(s, prefix) ==
    /\ Len(prefix) <= Len(s)
    /\ SubSeq(s, 1, Len(prefix)) = prefix

\* s[n:] of Python
DropFirst(s, n) == SubSeq(s, n + 1, Len(s))

Contains(s, ch) == \E k \in 1..Len(s) : s[k] = ch

\* ----------------------------------------------------------- Python values
PyNone == [type |-> "NoneType", val |-> <<>>]
PyStr(s) == [type |-> "str", val |-> s]
PyBytes(b) == [type |-> "bytes", val |-> b]
PyInt(n) == [type |-> "int", val |-> n]
PyList(l) == [type |-> "list", val |-> l]

\* the truth value Python's `not x` negates: None, "" and b"" are false
Truthy(x) == x.type # "NoneType" /\ x.val # <<>>

\* ------------------------------------------------------------- exceptions
NoExc == [cls |-> "", code |-> "", bucket |-> <<>>]
Exc(cls) == [cls |-> cls, code |-> "", bucket |-> <<>>]
\* botocore ClientError with response["Error"]["Code"]
ClientError(code) == [cls |-> "ClientError", code |-> code, bucket |-> <<>>]
NoCredentialsError == Exc("NoCredentialsError")

\* a log record: its level, and whether its message carries the identifier,
\* the file name and the bucket name
LogRec(level, id, fn, bk) ==
    [level |-> level, identifier |-> id, file_name |-> fn, bucket |-> bk]

\* ---------------------------------------------------- finite maps (dicts)
EmptyMap == [k \in {} |-> 0]
MapPut(m, k, v) == [x \in DOMAIN m \cup {k} |-> IF x = k THEN v ELSE m[x]]
MapDel(m, k) == [x \in DOMAIN m \ {k} |-> m[x]]

Range(s) == {s[k] : k \in DOMAIN s}
\* the elements of a finite set as a list, in an order the caller may not rely on
SeqOf(S) == CHOOSE s \in [1..Cardinality(S) -> S] : Range(s) = S

\* ------------------------------------------------- the local filesystem
\* The directory tree is a map from path strings to nodes; a node is a
\* directory or a regular file with its bytes.
DataDir == <<"d">>
DirNode == [kind |-> "dir", content |-> <<>>]
FileNode(bytes) == [kind |-> "file", content |-> bytes]

\* anyio.Path.__truediv__: one more path segment
Join(path, name) == path \o <<Sep>> \o name

LastSep(path) == CHOOSE k \in 1..Len(path) :
    /\ path[k] = Sep
    /\ \A j \in (k + 1)..Len(path) : path[j] # Sep
\* pathlib's .parent and .name of a path with at least one separator
Parent(path) == SubSeq(path, 1, LastSep(path) - 1)
BaseName(path) == DropFirst(path, LastSep(path))

PathExists(tree, path) == path \in DOMAIN tree
PathIsDir(tree, path) == PathExists(tree, path) /\ tree[path].kind = "dir"
PathIsFile(tree, path) == PathExists(tree, path) /\ tree[path].kind = "file"

\* folder_path.mkdir(parents=True, exist_ok=True): a directory that exists is
\* left alone, anything else at the path is FileExistsError; the parents that
\* are missing are made first, and stay when a later step fails
RECURSIVE Mkdir(_, _)
Mkdir(tree, path) ==
    IF PathIsDir(tree, path) THEN [fs |-> tree, exc |-> NoExc]
    ELSE IF PathExists(tree, path) THEN [fs |-> tree, exc |-> Exc("FileExistsError")]
    ELSE LET up == IF PathExists(tree, Parent(path)) THEN [fs |-> tree, exc |-> NoExc]
                   ELSE Mkdir(tree, Parent(path))
         IN  IF up.exc # NoExc THEN up
             ELSE IF ~PathIsDir(up.fs, Parent(path))
             THEN [fs |-> up.fs, exc |-> Exc("NotADirectoryError")]
             ELSE [fs |-> MapPut(up.fs, path, DirNode), exc |-> NoExc]

\* mutant of OpenWb: an existing file is opened without being truncated
OpenWb_NoTruncate(tree, path) ==
    IF PathIsDir(tree, path) THEN [fs |-> tree, exc |-> Exc("IsADirectoryError")]
    ELSE IF ~PathIsDir(tree, Parent(path)) THEN [fs |-> tree, exc |-> Exc("FileNotFoundError")]
    ELSE IF PathIsFile(tree, path) THEN [fs |-> tree, exc |-> NoExc]
    ELSE [fs |-> MapPut(tree, path, FileNode(<<>>)), exc |-> NoExc]

\* async_open(path, "wb"): creates the file or truncates it to zero bytes
OpenWb(tree, path) ==
    IF PathIsDir(tree, path) THEN [fs |-> tree, exc |-> Exc("IsADirectoryError")]
    ELSE IF ~PathIsDir(tree, Parent(path)) THEN [fs |-> tree, exc |-> Exc("FileNotFoundError")]
    ELSE [fs |-> MapPut(tree, path, FileNode(<<>>)), exc |-> NoExc]

\* the bytes of `old` with `data` written over them from byte offset 0 on
Overlay(old, data) ==
    IF Len(data) >= Len(old) THEN data ELSE data \o DropFirst(old, Len(data))

\* f.write(data) on a file opened "wb": the wrapper writes at its own offset,
\* which starts at 0, whatever the file holds by then
WriteFile(tree, path, data) ==
    MapPut(tree, path, FileNode(Overlay(tree[path].content, data)))

\* async_open(path, "rb") and f.read()
ReadFile(tree, path) ==
    IF PathIsDir(tree, path) THEN [ret |-> PyNone, exc |-> Exc("IsADirectoryError")]
    ELSE IF ~PathExists(tree, path) THEN [ret |-> PyNone, exc |-> Exc("FileNotFoundError")]
    ELSE [ret |-> PyBytes(tree[path].content), exc |-> NoExc]

\* file_path.unlink()
Unlink(tree, path) ==
    IF PathIsDir(tree, path) THEN [fs |-> tree, exc |-> Exc("IsADirectoryError")]
    ELSE IF ~PathExists(tree, path) THEN [fs |-> tree, exc |-> Exc("FileNotFoundError")]
    ELSE [fs |-> MapDel(tree, path), exc |-> NoExc]

\* folder_path.iterdir(): the entries directly inside the folder
IterDir(tree, folder) == {p \in DOMAIN tree : p # folder /\ Len(p) > Len(folder) /\ Parent(p) = folder}

\* file_path.stat().st_size
StatSize(tree, path) == Len(tree[path].content)

\* ------------------------------------------------ LocalStorageService
\* the outcome of one call: the tree it leaves, the exception it raises (or
\* NoExc), the value it returns and the log records it wrote
Outcome(tree, exc, ret, logs) == [fs |-> tree, exc |-> exc, ret |-> ret, logs |-> logs]

LocalBuildFullPath(identifier, file_name) == Join(Join(DataDir, identifier), file_name)

LocalSaveFile(tree, identifier, file_name, data) ==
    LET folder_path == Join(DataDir, identifier)
        made == Mkdir(tree, folder_path)
        file_path == Join(folder_path, file_name)
        opened == OpenWb(made.fs, file_path)
    IN  IF made.exc # NoExc THEN Outcome(tree, made.exc, PyNone, <<>>)
        ELSE IF opened.exc # NoExc
             THEN Outcome(made.fs, opened.exc, PyNone, <<LogRec("exception", TRUE, TRUE, FALSE)>>)
        ELSE Outcome(WriteFile(opened.fs, file_path, data), NoExc, PyNone,
                     <<LogRec("info", TRUE, TRUE, FALSE)>>)

\* mutant of LocalGetFile: a missing file reads as no bytes instead of raising
LocalGetFile_EmptyWhenMissing(tree, identifier, file_name) ==
    LET file_path == Join(Join(DataDir, identifier), file_name)
        read == ReadFile(tree, file_path)
    IN  IF ~PathExists(tree, file_path)
        THEN Outcome(tree, NoExc, PyBytes(<<>>), <<LogRec("warning", TRUE, TRUE, FALSE)>>)
        ELSE IF read.exc # NoExc THEN Outcome(tree, read.exc, PyNone, <<>>)
        ELSE Outcome(tree, NoExc, read.ret, <<LogRec("debug", TRUE, TRUE, FALSE)>>)

LocalGetFile(tree, identifier, file_name) ==
    LET file_path == Join(Join(DataDir, identifier), file_name)
        read == ReadFile(tree, file_path)
    IN  IF ~PathExists(tree, file_path)
        THEN Outcome(tree, Exc("FileNotFoundError"), PyNone,
                     <<LogRec("warning", TRUE, TRUE, FALSE)>>)
        ELSE IF read.exc # NoExc THEN Outcome(tree, read.exc, PyNone, <<>>)
        ELSE Outcome(tree, NoExc, read.ret, <<LogRec("debug", TRUE, TRUE, FALSE)>>)

\* mutant of LocalListFiles: a missing identifier directory lists as empty
LocalListFiles_EmptyWhenMissing(tree, identifier) ==
    LET folder_path == Join(DataDir, identifier)
        files == {BaseName(p) : p \in {q \in IterDir(tree, folder_path) : PathIsFile(tree, q)}}
    IN  Outcome(tree, NoExc, PyList(SeqOf(files)), <<LogRec("info", TRUE, FALSE, FALSE)>>)

LocalListFiles(tree, identifier) ==
    LET folder_path == Join(DataDir, identifier)
        files == {BaseName(p) : p \in {q \in IterDir(tree, folder_path) : PathIsFile(tree, q)}}
    IN  IF ~PathExists(tree, folder_path) \/ ~PathIsDir(tree, folder_path)
        THEN Outcome(tree, Exc("FileNotFoundError"), PyNone,
                     <<LogRec("warning", TRUE, FALSE, FALSE)>>)
        ELSE Outcome(tree, NoExc, PyList(SeqOf(files)), <<LogRec("info", TRUE, FALSE, FALSE)>>)

\* mutant of LocalDeleteFile: the identifier directory is removed with its
\* last entry
LocalDeleteFile_RemovesFolder(tree, identifier, file_name) ==
    LET folder_path == Join(DataDir, identifier)
        file_path == Join(folder_path, file_name)
        gone == Unlink(tree, file_path)
    IN  IF PathExists(tree, file_path)
        THEN IF gone.exc # NoExc THEN Outcome(tree, gone.exc, PyNone, <<>>)
             ELSE Outcome(IF IterDir(gone.fs, folder_path) = {}
                          THEN MapDel(gone.fs, folder_path) ELSE gone.fs,
                          NoExc, PyNone, <<LogRec("info", TRUE, TRUE, FALSE)>>)
        ELSE Outcome(tree, NoExc, PyNone, <<LogRec("warning", TRUE, TRUE, FALSE)>>)

\* mutant of LocalDeleteFile: unlinks without asking whether the file exists
LocalDeleteFile_NoCheck(tree, identifier, file_name) ==
    LET file_path == Join(Join(DataDir, identifier), file_name)
        gone == Unlink(tree, file_path)
    IN  IF gone.exc # NoExc THEN Outcome(tree, gone.exc, PyNone, <<>>)
        ELSE Outcome(gone.fs, NoExc, PyNone, <<LogRec("info", TRUE, TRUE, FALSE)>>)

LocalDeleteFile(tree, identifier, file_name) ==
    LET file_path == Join(Join(DataDir, identifier), file_name)
        gone == Unlink(tree, file_path)
    IN  IF PathExists(tree, file_path)
        THEN IF gone.exc # NoExc THEN Outcome(tree, gone.exc, PyNone, <<>>)
             ELSE Outcome(gone.fs, NoExc, PyNone, <<LogRec("info", TRUE, TRUE, FALSE)>>)
        ELSE Outcome(tree, NoExc, PyNone, <<LogRec("warning", TRUE, TRUE, FALSE)>>)

\* mutant of LocalGetFileSize: a missing file has size 0 instead of raising
LocalGetFileSize_ZeroWhenMissing(tree, identifier, file_name) ==
    LET file_path == Join(Join(DataDir, identifier), file_name)
    IN  IF ~PathExists(tree, file_path)
        THEN Outcome(tree, NoExc, PyInt(0), <<LogRec("warning", TRUE, TRUE, FALSE)>>)
        ELSE Outcome(tree, NoExc, PyInt(StatSize(tree, file_path)), <<>>)

LocalGetFileSize(tree, identifier, file_name) ==
    LET file_path == Join(Join(DataDir, identifier), file_name)
    IN  IF ~PathExists(tree, file_path)
        THEN Outcome(tree, Exc("FileNotFoundError"), PyNone,
                     <<LogRec("warning", TRUE, TRUE, FALSE)>>)
        ELSE Outcome(tree, NoExc, PyInt(StatSize(tree, file_path)), <<>>)

\* ------------------------------------------------------ the S3 provider
\* The bucket is a map from object keys to stored objects. Every request can
\* fail for a cause of the provider's: no credentials found, the bucket
\* missing, or another error response.
Faults == {"none", "NoCredentials", "NoSuchBucket", "AccessDenied"}
ProviderExc(fault) ==
    IF fault = "NoCredentials" THEN NoCredentialsError ELSE ClientError(fault)

S3Object(body) == [Body |-> body, ContentLength |-> Len(body)]

\* s3_client.put_object(Bucket, Key, Body)
PutObject(objs, key, body, fault) ==
    IF fault # "none" THEN [objects |-> objs, exc |-> ProviderExc(fault)]
    ELSE [objects |-> MapPut(objs, key, S3Object(body)), exc |-> NoExc]

\* s3_client.get_object(Bucket, Key) and response["Body"].read()
GetObject(objs, key, fault) ==
    IF fault # "none" THEN [ret |-> PyNone, exc |-> ProviderExc(fault)]
    ELSE IF key \notin DOMAIN objs THEN [ret |-> PyNone, exc |-> ClientError("NoSuchKey")]
    ELSE [ret |-> PyBytes(objs[key].Body), exc |-> NoExc]

\* the code points of the characters that keys are made of
CodePoint(c) ==
    CASE c = "-" -> 45 [] c = "/" -> 47 [] c = "a" -> 97 [] c = "b" -> 98
      [] c = "e" -> 101 [] c = "f" -> 102 [] c = "g" -> 103 [] c = "n" -> 110
      [] c = "t" -> 116 [] OTHER -> 0
\* the order in which the provider lists keys: by their code points
KeyLess(x, y) ==
    \/ Len(x) < Len(y) /\ SubSeq(y, 1, Len(x)) = x
    \/ \E k \in 1..(IF Len(x) < Len(y) THEN Len(x) ELSE Len(y)) :
          /\ SubSeq(x, 1, k - 1) = SubSeq(y, 1, k - 1)
          /\ CodePoint(x[k]) < CodePoint(y[k])
\* the first n keys of a set of keys, in that order
FirstKeys(keys, n) == {k \in keys : Cardinality({j \in keys : KeyLess(j, k)}) < n}

\* the number of keys one list_objects_v2 response holds at most (MaxKeys is
\* 1000 unless the request asks for fewer; here scaled to the few objects a
\* run stores)
MaxKeys == 1

\* s3_client.list_objects_v2(Bucket, Prefix): the keys of response["Contents"],
\* which are the first MaxKeys keys with the prefix, and response["IsTruncated"],
\* which says that there are more
ListObjectsV2(objs, prefix, fault) ==
    LET matching == {k \in DOMAIN objs : StartsWith(k, prefix)}
    IN  IF fault # "none" THEN [keys |-> {}, truncated |-> FALSE, exc |-> ProviderExc(fault)]
        ELSE [keys |-> FirstKeys(matching, MaxKeys),
              truncated |-> Cardinality(matching) > MaxKeys, exc |-> NoExc]

\* s3_client.delete_object(Bucket, Key): deleting an absent key is no error
DeleteObject(objs, key, fault) ==
    IF fault # "none" THEN [objects |-> objs, exc |-> ProviderExc(fault)]
    ELSE [objects |-> MapDel(objs, key), exc |-> NoExc]

\* s3_client.head_object(Bucket, Key) and response["ContentLength"]
HeadObject(objs, key, fault) ==
    IF fault # "none" THEN [ret |-> PyNone, exc |-> ProviderExc(fault)]
    ELSE IF key \notin DOMAIN objs THEN [ret |-> PyNone, exc |-> ClientError("404")]
    ELSE [ret |-> PyInt(objs[key].ContentLength), exc |-> NoExc]

\* --------------------------------------------------- S3StorageService
TenantPrefix == <<"t", "e", "n", "a", "n", "t", "-">>

\* f"tenant-{identifier}/{file_name}"
S3BuildPath(identifier, file_name) ==
    TenantPrefix \o identifier.val \o <<Sep>> \o file_name.val

\* StorageService._build_path: left to the backends
BaseBuildPath(identifier, file_name) == [ret |-> PyNone, exc |-> Exc("NotImplementedError")]

\* mutant of S3BuildFullPath: a key without the tenant prefix
S3BuildFullPath_NoTenant(identifier, file_name) ==
    [ret |-> PyStr(identifier.val \o <<Sep>> \o file_name.val), exc |-> NoExc]

\* StorageService.build_full_path, which S3StorageService inherits: the
\* result of self._build_path, which S3StorageService overrides
S3BuildFullPath(identifier, file_name) ==
    [ret |-> PyStr(S3BuildPath(identifier, file_name)), exc |-> NoExc]

\* the outcome of one call: the bucket contents it leaves, the exception it
\* raises (or NoExc), the value it returns, the log records it wrote and the
\* number of requests it sent to the provider
S3Outcome(objs, exc, ret, logs, requests) ==
    [objects |-> objs, exc |-> exc, ret |-> ret, logs |-> logs, requests |-> requests]

\* mutant of BucketMissingError: the provider's error is raised as it came
BucketMissingError_Unwrapped(bucket_name, e) == e

\* RuntimeError(msg) from e, where msg names the bucket and e is the
\* provider's ClientError
BucketMissingError(bucket_name, e) ==
    [cls |-> "RuntimeError", code |-> e.code, bucket |-> bucket_name]

S3SaveFile(objs, bucket_name, identifier, file_name, data, fault) ==
    LET key == S3BuildPath(identifier, file_name)
        put == PutObject(objs, key, data.val, fault)
    IN  IF ~Truthy(identifier) \/ ~Truthy(file_name) \/ data.type = "NoneType"
        THEN S3Outcome(objs, Exc("ValueError"), PyNone, <<>>, 0)
        ELSE IF data.type # "bytes"
        THEN S3Outcome(objs, Exc("TypeError"), PyNone,
                       <<LogRec("error", FALSE, FALSE, FALSE)>>, 0)
        ELSE IF put.exc = NoExc
        THEN S3Outcome(put.objects, NoExc, PyNone, <<LogRec("info", TRUE, TRUE, FALSE)>>, 1)
        ELSE IF put.exc.cls = "NoCredentialsError"
        THEN S3Outcome(put.objects, put.exc, PyNone,
                       <<LogRec("exception", FALSE, FALSE, FALSE)>>, 1)
        ELSE IF put.exc.code = "NoSuchBucket"
        THEN S3Outcome(put.objects, BucketMissingError(bucket_name, put.exc), PyNone,
                       <<LogRec("exception", FALSE, FALSE, TRUE)>>, 1)
        ELSE S3Outcome(put.objects, put.exc, PyNone,
                       <<LogRec("exception", TRUE, TRUE, FALSE)>>, 1)

\* mutant of S3GetFile: the key lacks the tenant prefix that save_file uses
S3GetFile_OtherKey(objs, identifier, file_name, fault) ==
    LET key == identifier.val \o <<Sep>> \o file_name.val
        got == GetObject(objs, key, fault)
    IN  IF ~Truthy(identifier) \/ ~Truthy(file_name)
        THEN S3Outcome(objs, Exc("ValueError"), PyNone, <<>>, 0)
        ELSE IF got.exc = NoExc
        THEN S3Outcome(objs, NoExc, got.ret, <<LogRec("info", TRUE, TRUE, FALSE)>>, 1)
        ELSE IF got.exc.cls = "ClientError"
        THEN S3Outcome(objs, got.exc, PyNone, <<LogRec("exception", TRUE, TRUE, FALSE)>>, 1)
        ELSE S3Outcome(objs, got.exc, PyNone, <<>>, 1)

S3GetFile(objs, identifier, file_name, fault) ==
    LET key == S3BuildPath(identifier, file_name)
        got == GetObject(objs, key, fault)
    IN  IF ~Truthy(identifier) \/ ~Truthy(file_name)
        THEN S3Outcome(objs, Exc("ValueError"), PyNone, <<>>, 0)
        ELSE IF got.exc = NoExc
        THEN S3Outcome(objs, NoExc, got.ret, <<LogRec("info", TRUE, TRUE, FALSE)>>, 1)
        ELSE IF got.exc.cls = "ClientError"
        THEN S3Outcome(objs, got.exc, PyNone, <<LogRec("exception", TRUE, TRUE, FALSE)>>, 1)
        ELSE S3Outcome(objs, got.exc, PyNone, <<>>, 1)

\* mutant of S3ListFiles: the prefix lacks its closing separator, and the name
\* is what follows the last separator of the key
S3ListFiles_OpenPrefix(objs, identifier, fault) ==
    LET prefix == TenantPrefix \o identifier.val
        response == ListObjectsV2(objs, prefix, fault)
        files == {BaseName(key) : key \in {k \in response.keys : StartsWith(k, prefix)}}
    IN  IF ~Truthy(identifier)
        THEN S3Outcome(objs, Exc("ValueError"), PyNone, <<>>, 0)
        ELSE IF response.exc = NoExc
        THEN S3Outcome(objs, NoExc, PyList(SeqOf(files)),
                       <<LogRec("info", TRUE, FALSE, FALSE)>>, 1)
        ELSE IF response.exc.cls = "ClientError"
        THEN S3Outcome(objs, response.exc, PyNone,
                       <<LogRec("exception", TRUE, FALSE, FALSE)>>, 1)
        ELSE S3Outcome(objs, response.exc, PyNone, <<>>, 1)

\* mutant of S3ListFiles: the identifier is not validated
S3ListFiles_Unvalidated(objs, identifier, fault) ==
    LET prefix == TenantPrefix \o identifier.val \o <<Sep>>
        response == ListObjectsV2(objs, prefix, fault)
        files == {DropFirst(key, Len(prefix)) :
                    key \in {k \in response.keys :
                               /\ StartsWith(k, prefix)
                               /\ ~Contains(DropFirst(k, Len(prefix)), Sep)}}
    IN  IF response.exc = NoExc
        THEN S3Outcome(objs, NoExc, PyList(SeqOf(files)),
                       <<LogRec("info", TRUE, FALSE, FALSE)>>, 1)
        ELSE IF response.exc.cls = "ClientError"
        THEN S3Outcome(objs, response.exc, PyNone,
                       <<LogRec("exception", TRUE, FALSE, FALSE)>>, 1)
        ELSE S3Outcome(objs, response.exc, PyNone, <<>>, 1)

S3ListFiles(objs, identifier, fault) ==
    LET prefix == TenantPrefix \o identifier.val \o <<Sep>>
        response == ListObjectsV2(objs, prefix, fault)
        files == {DropFirst(key, Len(prefix)) :
                    key \in {k \in response.keys :
                               /\ StartsWith(k, prefix)
                               /\ ~Contains(DropFirst(k, Len(prefix)), Sep)}}
    IN  IF ~Truthy(identifier)
        THEN S3Outcome(objs, Exc("ValueError"), PyNone, <<>>, 0)
        ELSE IF response.exc = NoExc
        THEN S3Outcome(objs, NoExc, PyList(SeqOf(files)),
                       <<LogRec("info", TRUE, FALSE, FALSE)>>, 1)
        ELSE IF response.exc.cls = "ClientError"
        THEN S3Outcome(objs, response.exc, PyNone,
                       <<LogRec("exception", TRUE, FALSE, FALSE)>>, 1)
        ELSE S3Outcome(objs, response.exc, PyNone, <<>>, 1)

\* mutant of S3DeleteFile: every object of the tenant is deleted
S3DeleteFile_WholeTenant(objs, identifier, file_name, fault) ==
    LET prefix == TenantPrefix \o identifier.val \o <<Sep>>
        gone == DeleteObject(objs, S3BuildPath(identifier, file_name), fault)
    IN  IF ~Truthy(identifier) \/ ~Truthy(file_name)
        THEN S3Outcome(objs, Exc("ValueError"), PyNone, <<>>, 0)
        ELSE IF gone.exc = NoExc
        THEN S3Outcome([k \in {j \in DOMAIN objs : ~StartsWith(j, prefix)} |-> objs[k]],
                       NoExc, PyNone, <<LogRec("info", TRUE, TRUE, FALSE)>>, 1)
        ELSE IF gone.exc.cls = "ClientError"
        THEN S3Outcome(objs, gone.exc, PyNone, <<LogRec("exception", TRUE, TRUE, FALSE)>>, 1)
        ELSE S3Outcome(objs, gone.exc, PyNone, <<>>, 1)

\* mutant of S3DeleteFile: a request that the provider refused is sent again
S3DeleteFile_Retrying(objs, identifier, file_name, fault) ==
    LET key == S3BuildPath(identifier, file_name)
        gone == DeleteObject(objs, key, fault)
        again == DeleteObject(objs, key, "none")
    IN  IF ~Truthy(identifier) \/ ~Truthy(file_name)
        THEN S3Outcome(objs, Exc("ValueError"), PyNone, <<>>, 0)
        ELSE IF gone.exc = NoExc
        THEN S3Outcome(gone.objects, NoExc, PyNone, <<LogRec("info", TRUE, TRUE, FALSE)>>, 1)
        ELSE S3Outcome(again.objects, NoExc, PyNone, <<LogRec("info", TRUE, TRUE, FALSE)>>, 2)

S3DeleteFile(objs, identifier, file_name, fault) ==
    LET key == S3BuildPath(identifier, file_name)
        gone == DeleteObject(objs, key, fault)
    IN  IF ~Truthy(identifier) \/ ~Truthy(file_name)
        THEN S3Outcome(objs, Exc("ValueError"), PyNone, <<>>, 0)
        ELSE IF gone.exc = NoExc
        THEN S3Outcome(gone.objects, NoExc, PyNone, <<LogRec("info", TRUE, TRUE, FALSE)>>, 1)
        ELSE IF gone.exc.cls = "ClientError"
        THEN S3Outcome(objs, gone.exc, PyNone, <<LogRec("exception", TRUE, TRUE, FALSE)>>, 1)
        ELSE S3Outcome(objs, gone.exc, PyNone, <<>>, 1)

S3GetFileSize(objs, identifier, file_name, fault) ==
    LET key == S3BuildPath(identifier, file_name)
        head == HeadObject(objs, key, fault)
    IN  IF ~Truthy(identifier) \/ ~Truthy(file_name)
        THEN S3Outcome(objs, Exc("ValueError"), PyNone, <<>>, 0)
        ELSE IF head.exc = NoExc
        THEN S3Outcome(objs, NoExc, head.ret, <<LogRec("info", TRUE, TRUE, FALSE)>>, 1)
        ELSE IF head.exc.cls = "ClientError"
        THEN S3Outcome(objs, head.exc, PyNone, <<LogRec("exception", TRUE, TRUE, FALSE)>>, 1)
        ELSE S3Outcome(objs, head.exc, PyNone, <<>>, 1)

\* ------------------------------------------------------------ the state
VARIABLES
    backend,    \* "local" or "s3": the backend the deployment constructs
    settings,   \* the attributes of settings_service.settings
    pc,         \* where the construction of the service stands
    ready,      \* self.ready
    s3_client,  \* whether self.s3_client has been built
    bucket,     \* self.bucket
    fs,         \* the directory tree under data_dir (local backend)
    objects,    \* the contents of the bucket (S3 backend)
    saved,      \* history: (identifier, file_name) -> payload of the last
                \* completed save_file that no completed delete_file followed
    last,       \* the last completed call: its arguments and its outcome
    nops,       \* the number of calls made
    task,       \* the local-backend calls in flight, each at an await point
    order,      \* history: the tasks in the order of their writes
    environ,    \* os.environ: the environment variables of the process
    client_kwargs,  \* the keyword arguments boto3.client was called with
    instances,  \* the OutputValue and LogType objects that exist
    constructed,    \* the last construction of a schema object and its outcome
    installed,  \* what importing each module does in this environment
    sys_modules,    \* sys.modules: the imported modules and their namespaces
    harness     \* the test of the compatibility harness that is running

storageVars == <<backend, settings, environ, pc, ready, s3_client, client_kwargs, bucket,
                 fs, objects, saved, last, nops, task, order>>
schemaVars == <<instances, constructed>>
harnessVars == <<installed, sys_modules, harness>>
vars == <<storageVars, schemaVars, harnessVars>>
\* what no call of a constructed storage service touches
aside == <<schemaVars, harnessVars, environ, client_kwargs>>

\* no schema object has been constructed
NoConstruction == [cls |-> "none", args |-> <<>>, exc |-> NoExc, ret |-> PyNone]
SchemaIdle == instances = {} /\ constructed = NoConstruction

\* no module has been imported and no test of the harness runs
NoTest == [test |-> "none", k |-> 0, visited |-> <<>>, failed |-> <<>>, slow |-> <<>>,
           count |-> 0, result |-> "idle"]
HarnessIdle == installed = EmptyMap /\ sys_modules = EmptyMap /\ harness = NoTest

\* getattr(obj, name, default)
GetAttr(obj, name, default) == IF name \in DOMAIN obj THEN obj[name] ELSE default

\* lfx.services.settings.constants.DEFAULT_S3_BUCKET_NAME
DEFAULT_S3_BUCKET_NAME == <<"l", "f">>

SettingsChoices == {EmptyMap, [n \in {"s3_bucket_name"} |-> <<"m", "y">>]}

\* lfx.services.settings.constants.DEFAULT_S3_REGION_NAME
DEFAULT_S3_REGION_NAME == <<"u", "s">>

\* os.getenv(name): the value of the variable, None when it is not set
GetEnv(env, name) == IF name \in DOMAIN env THEN PyStr(env[name]) ELSE PyNone

\* client_kwargs of S3StorageService.__init__: the region always, the two
\* credentials when both are truthy
ClientKwargs(s3_region, s3_access_key, s3_secret_key) ==
    LET region_only == [n \in {"region_name"} |-> s3_region]
    IN  IF Truthy(s3_access_key) /\ Truthy(s3_secret_key)
        THEN MapPut(MapPut(region_only, "aws_access_key_id", s3_access_key),
                    "aws_secret_access_key", s3_secret_key)
        ELSE region_only

\* the settings objects of a deployment: bucket and region are attributes of
\* the settings or not; a credential attribute is not there, is None, is the
\* empty string or holds a value
CredentialSettings == {PyNone, PyStr(<<>>), PyStr(<<"S">>)}
Attributes(name, values) == {EmptyMap} \cup {[n \in {name} |-> v] : v \in values}
Merge(m1, m2) == [n \in DOMAIN m1 \cup DOMAIN m2 |-> IF n \in DOMAIN m1 THEN m1[n] ELSE m2[n]]
S3Settings ==
    {Merge(Merge(b, r), Merge(a, k)) :
        b \in Attributes("s3_bucket_name", {<<"m", "y">>}),
        r \in Attributes("s3_region_name", {<<"e", "u">>}),
        a \in Attributes("s3_aws_access_key_id", CredentialSettings),
        k \in Attributes("s3_aws_secret_access_key", CredentialSettings)}
\* the environment: each of the two variables is not set, is set to the
\* empty string or is set to a value
Environments ==
    {Merge(a, k) :
        a \in Attributes("LANGFLOW_S3_AWS_ACCESS_KEY_ID", {<<>>, <<"E">>}),
        k \in Attributes("LANGFLOW_S3_AWS_SECRET_ACCESS_KEY", {<<>>, <<"E">>})}

\* data_dir exists; a name under it can be taken by a regular file that the
\* storage service did not write
BaseTree == [p \in {DataDir} |-> DirNode]
InitialTrees == {BaseTree, MapPut(BaseTree, Join(DataDir, <<"a", "b">>), FileNode(<<1>>))}

Tasks == {1, 2}
\* a call in flight: its arguments, the await it stands at, the exception it
\* raised, the value it returned, and `held`: the bytes of the file it has
\* open when that file was unlinked meanwhile, or None while the file has its
\* name
IdleTask == [op |-> "none", pc |-> "idle", identifier |-> <<>>, file_name |-> <<>>,
             data |-> <<>>, exc |-> NoExc, ret |-> PyNone, held |-> PyNone]

NoCall == [op |-> "none", identifier |-> PyNone, file_name |-> PyNone, data |-> PyNone,
           fault |-> "none", exc |-> NoExc, ret |-> PyNone, logs |-> <<>>, requests |-> 0,
           was |-> PyNone]

\* history: the payload that completed saves had left under the pair
Was(pair) == IF pair \in DOMAIN saved THEN PyBytes(saved[pair]) ELSE PyNone

\* the record of a call: its arguments, the provider's fault it met, its
\* outcome, and the payload the history held for its pair when it began
Call(op, identifier, file_name, data, fault, out, requests) ==
    [op |-> op, identifier |-> identifier, file_name |-> file_name, data |-> data,
     fault |-> fault, exc |-> out.exc, ret |-> out.ret, logs |-> out.logs,
     requests |-> requests, was |-> Was(<<identifier.val, file_name.val>>)]

Init ==
    /\ backend \in {"local", "s3"}
    /\ settings \in IF backend = "s3" THEN SettingsChoices ELSE {EmptyMap}
    /\ pc = "new"
    /\ ready = FALSE
    /\ s3_client = FALSE
    /\ bucket = <<>>
    /\ fs \in IF backend = "local" THEN InitialTrees ELSE {BaseTree}
    /\ objects = EmptyMap
    /\ saved = EmptyMap
    /\ last = NoCall
    /\ nops = 0
    /\ task = [t \in Tasks |-> IdleTask]
    /\ order = <<>>
    /\ environ = EmptyMap
    /\ client_kwargs = EmptyMap
    /\ SchemaIdle
    /\ HarnessIdle

\* --------------------------------------------------------- construction
\* StorageService.__init__: stores the collaborators and data_dir, then
\* calls set_ready()
BaseInit ==
    /\ pc = "new"
    /\ ready' = TRUE
    /\ pc' = "base"
    /\ UNCHANGED <<aside, backend, settings, s3_client, bucket, fs, objects, saved, last, nops,
                   task, order>>

\* LocalStorageService.__init__ after super().__init__(): set_ready()
LocalInit ==
    /\ backend = "local"
    /\ pc = "base"
    /\ ready' = TRUE
    /\ pc' = "constructed"
    /\ UNCHANGED <<aside, backend, settings, s3_client, bucket, fs, objects, saved, last, nops,
                   task, order>>

\* S3StorageService.__init__ after super().__init__(): reads the settings and
\* builds the client; boto3.client(...) returns the client or raises
S3InitClient ==
    /\ backend = "s3"
    /\ pc = "base"
    /\ bucket' = GetAttr(settings, "s3_bucket_name", DEFAULT_S3_BUCKET_NAME)
    /\ client_kwargs' =
          ClientKwargs(GetAttr(settings, "s3_region_name", DEFAULT_S3_REGION_NAME),
                       GetAttr(settings, "s3_aws_access_key_id",
                               GetEnv(environ, "LANGFLOW_S3_AWS_ACCESS_KEY_ID")),
                       GetAttr(settings, "s3_aws_secret_access_key",
                               GetEnv(environ, "LANGFLOW_S3_AWS_SECRET_ACCESS_KEY")))
    /\ \/ s3_client' = TRUE /\ pc' = "client"
       \/ s3_client' = FALSE /\ pc' = "failed"
    /\ UNCHANGED <<schemaVars, harnessVars, environ, backend, settings, ready, fs, objects,
                   saved, last, nops, task, order>>

\* S3StorageService.__init__, its last statement: set_ready()
S3InitReady ==
    /\ backend = "s3"
    /\ pc = "client"
    /\ ready' = TRUE
    /\ pc' = "constructed"
    /\ UNCHANGED <<aside, backend, settings, s3_client, bucket, fs, objects, saved, last, nops,
                   task, order>>

Construct == BaseInit \/ LocalInit \/ S3InitClient \/ S3InitReady

\* ---------------------------------------- calls on the local backend
LocalReady == backend = "local" /\ pc = "constructed" /\ nops < MaxOps

\* the history of completed saves and deletes
Remember(pair, data) == MapPut(saved, pair, data)
Forget(pair) == MapDel(saved, pair)

LocalSave(identifier, file_name, data) ==
    LET out == LocalSaveFile(fs, identifier, file_name, data)
    IN  /\ LocalReady
        /\ fs' = out.fs
        /\ saved' = IF out.exc = NoExc THEN Remember(<<identifier, file_name>>, data) ELSE saved
        /\ last' = Call("save_file", PyStr(identifier), PyStr(file_name), PyBytes(data),
                        "none", out, 0)
        /\ nops' = nops + 1
        /\ UNCHANGED <<aside, backend, settings, pc, ready, s3_client, bucket, objects, task, order>>

LocalGet(identifier, file_name) ==
    LET out == LocalGetFile(fs, identifier, file_name)
    IN  /\ LocalReady
        /\ fs' = out.fs
        /\ last' = Call("get_file", PyStr(identifier), PyStr(file_name), PyNone, "none", out, 0)
        /\ nops' = nops + 1
        /\ UNCHANGED <<aside, backend, settings, pc, ready, s3_client, bucket, objects, saved,
                       task, order>>

LocalList(identifier) ==
    LET out == LocalListFiles(fs, identifier)
    IN  /\ LocalReady
        /\ fs' = out.fs
        /\ last' = Call("list_files", PyStr(identifier), PyNone, PyNone, "none", out, 0)
        /\ nops' = nops + 1
        /\ UNCHANGED <<aside, backend, settings, pc, ready, s3_client, bucket, objects, saved,
                       task, order>>

LocalDelete(identifier, file_name) ==
    LET out == LocalDeleteFile(fs, identifier, file_name)
    IN  /\ LocalReady
        /\ fs' = out.fs
        /\ saved' = IF out.exc = NoExc THEN Forget(<<identifier, file_name>>) ELSE saved
        /\ last' = Call("delete_file", PyStr(identifier), PyStr(file_name), PyNone,
                        "none", out, 0)
        /\ nops' = nops + 1
        /\ UNCHANGED <<aside, backend, settings, pc, ready, s3_client, bucket, objects, task, order>>

LocalSize(identifier, file_name) ==
    LET out == LocalGetFileSize(fs, identifier, file_name)
    IN  /\ LocalReady
        /\ fs' = out.fs
        /\ last' = Call("get_file_size", PyStr(identifier), PyStr(file_name), PyNone,
                        "none", out, 0)
        /\ nops' = nops + 1
        /\ UNCHANGED <<aside, backend, settings, pc, ready, s3_client, bucket, objects, saved,
                       task, order>>

\* LocalStorageService.build_full_path: str(path), no access to the filesystem
LocalBuildPathCall(identifier, file_name) ==
    LET out == Outcome(fs, NoExc, PyStr(LocalBuildFullPath(identifier, file_name)), <<>>)
    IN  /\ LocalReady
        /\ last' = Call("build_full_path", PyStr(identifier), PyStr(file_name), PyNone,
                        "none", out, 0)
        /\ nops' = nops + 1
        /\ UNCHANGED <<aside, backend, settings, pc, ready, s3_client, bucket, fs, objects,
                       saved, task, order>>

\* LocalStorageService.teardown: nothing to release
LocalTeardown ==
    /\ LocalReady
    /\ last' = Call("teardown", PyNone, PyNone, PyNone, "none",
                    Outcome(fs, NoExc, PyNone, <<>>), 0)
    /\ nops' = nops + 1
    /\ UNCHANGED <<aside, backend, settings, pc, ready, s3_client, bucket, fs, objects, saved,
                   task, order>>

LocalCall ==
    \/ \E i \in Identifiers \cup NestedIdentifiers, f \in FileNames, d \in Payloads :
          LocalSave(i, f, d)
    \/ \E i \in Identifiers, f \in FileNames : LocalGet(i, f)
    \/ \E i \in Identifiers : LocalList(i)
    \/ \E i \in Identifiers, f \in FileNames : LocalDelete(i, f)
    \/ \E i \in Identifiers, f \in FileNames : LocalSize(i, f)
    \/ \E i \in Identifiers, f \in FileNames : LocalBuildPathCall(i, f)
    \/ LocalTeardown

\* ------------------------------------------- calls on the S3 backend
S3Ready == backend = "s3" /\ pc = "constructed" /\ nops < MaxOps

\* the arguments a caller can pass: a name, the empty string or None; bytes,
\* None or a str where bytes are expected
S3IdentifierArgs == {PyNone, PyStr(<<>>)} \cup {PyStr(i) : i \in Identifiers}
S3FileNameArgs == {PyNone, PyStr(<<>>)} \cup {PyStr(f) : f \in FileNames}
S3DataArgs == {PyNone, PyStr(<<"x">>)} \cup {PyBytes(d) : d \in Payloads}

\* the provider's fault of a call that sent a request
Met(out, fault) == IF out.requests > 0 THEN fault ELSE "none"
\* a call that sends no request meets no fault of the provider
FaultsOf(out) == IF out.requests > 0 THEN Faults ELSE {"none"}

S3Save(identifier, file_name, data, fault) ==
    LET out == S3SaveFile(objects, bucket, identifier, file_name, data, fault)
    IN  /\ S3Ready
        /\ objects' = out.objects
        /\ saved' = IF out.exc = NoExc
                    THEN Remember(<<identifier.val, file_name.val>>, data.val)
                    ELSE saved
        /\ last' = Call("save_file", identifier, file_name, data, Met(out, fault), out,
                        out.requests)
        /\ nops' = nops + 1
        /\ UNCHANGED <<aside, backend, settings, pc, ready, s3_client, bucket, fs, task, order>>

S3Get(identifier, file_name, fault) ==
    LET out == S3GetFile(objects, identifier, file_name, fault)
    IN  /\ S3Ready
        /\ objects' = out.objects
        /\ last' = Call("get_file", identifier, file_name, PyNone, Met(out, fault), out,
                        out.requests)
        /\ nops' = nops + 1
        /\ UNCHANGED <<aside, backend, settings, pc, ready, s3_client, bucket, fs, saved, task, order>>

S3List(identifier, fault) ==
    LET out == S3ListFiles(objects, identifier, fault)
    IN  /\ S3Ready
        /\ objects' = out.objects
        /\ last' = Call("list_files", identifier, PyNone, PyNone, Met(out, fault), out,
                        out.requests)
        /\ nops' = nops + 1
        /\ UNCHANGED <<aside, backend, settings, pc, ready, s3_client, bucket, fs, saved, task, order>>

S3Delete(identifier, file_name, fault) ==
    LET out == S3DeleteFile(objects, identifier, file_name, fault)
    IN  /\ S3Ready
        /\ objects' = out.objects
        /\ saved' = IF out.exc = NoExc
                    THEN Forget(<<identifier.val, file_name.val>>)
                    ELSE saved
        /\ last' = Call("delete_file", identifier, file_name, PyNone, Met(out, fault), out,
                        out.requests)
        /\ nops' = nops + 1
        /\ UNCHANGED <<aside, backend, settings, pc, ready, s3_client, bucket, fs, task, order>>

S3Size(identifier, file_name, fault) ==
    LET out == S3GetFileSize(objects, identifier, file_name, fault)
    IN  /\ S3Ready
        /\ objects' = out.objects
        /\ last' = Call("get_file_size", identifier, file_name, PyNone, Met(out, fault), out,
                        out.requests)
        /\ nops' = nops + 1
        /\ UNCHANGED <<aside, backend, settings, pc, ready, s3_client, bucket, fs, saved, task, order>>

\* build_full_path on the S3 backend: no request to the provider
S3BuildPathCall(identifier, file_name) ==
    LET built == S3BuildFullPath(identifier, file_name)
        out == S3Outcome(objects, built.exc, built.ret, <<>>, 0)
    IN  /\ S3Ready
        /\ last' = Call("build_full_path", identifier, file_name, PyNone, "none", out, 0)
        /\ nops' = nops + 1
        /\ UNCHANGED <<aside, backend, settings, pc, ready, s3_client, bucket, fs, objects,
                       saved, task, order>>

\* S3StorageService.teardown: nothing to release
S3Teardown ==
    /\ S3Ready
    /\ last' = Call("teardown", PyNone, PyNone, PyNone, "none",
                    S3Outcome(objects, NoExc, PyNone, <<>>, 0), 0)
    /\ nops' = nops + 1
    /\ UNCHANGED <<aside, backend, settings, pc, ready, s3_client, bucket, fs, objects, saved,
                   task, order>>

S3Call ==
    \/ \E i \in S3IdentifierArgs, f \in S3FileNameArgs, d \in S3DataArgs :
          \E x \in FaultsOf(S3SaveFile(objects, bucket, i, f, d, "none")) : S3Save(i, f, d, x)
    \/ \E i \in S3IdentifierArgs, f \in S3FileNameArgs :
          \E x \in FaultsOf(S3GetFile(objects, i, f, "none")) : S3Get(i, f, x)
    \/ \E i \in S3IdentifierArgs :
          \E x \in FaultsOf(S3ListFiles(objects, i, "none")) : S3List(i, x)
    \/ \E i \in S3IdentifierArgs, f \in S3FileNameArgs :
          \E x \in FaultsOf(S3DeleteFile(objects, i, f, "none")) : S3Delete(i, f, x)
    \/ \E i \in S3IdentifierArgs, f \in S3FileNameArgs :
          \E x \in FaultsOf(S3GetFileSize(objects, i, f, "none")) : S3Size(i, f, x)
    \/ \E i \in Identifiers, f \in FileNames : S3BuildPathCall(PyStr(i), PyStr(f))
    \/ S3Teardown

\* ------------------------------------------------- the specification
\* One service is constructed, then its operations are called one at a time.
Next == Construct \/ LocalCall \/ S3Call

Spec == Init /\ [][Next]_vars

\* ------------------------- the local backend on a filesystem that fails
\* The operating system can refuse a step of save_file: the open of the file
\* (no file descriptor left, no permission) or the write (no space left),
\* which can have put a part of the bytes into the file.
LocalFaults == {"open", "write"}

\* LocalStorageService.save_file when the operating system refuses the step
\* `fault` after `written` bytes: what was done before the step stays done,
\* the except clause logs and re-raises
LocalSaveFileRefused(tree, identifier, file_name, data, fault, written) ==
    LET folder_path == Join(DataDir, identifier)
        made == Mkdir(tree, folder_path)
        file_path == Join(folder_path, file_name)
        opened == OpenWb(made.fs, file_path)
    IN  IF made.exc # NoExc THEN Outcome(tree, made.exc, PyNone, <<>>)
        ELSE IF opened.exc # NoExc
             THEN Outcome(made.fs, opened.exc, PyNone, <<LogRec("exception", TRUE, TRUE, FALSE)>>)
        ELSE IF fault = "open"
             THEN Outcome(made.fs, Exc("OSError"), PyNone,
                          <<LogRec("exception", TRUE, TRUE, FALSE)>>)
        ELSE Outcome(WriteFile(opened.fs, file_path, SubSeq(data, 1, written)),
                     Exc("OSError"), PyNone, <<LogRec("exception", TRUE, TRUE, FALSE)>>)

\* a save_file call that the operating system refuses at a step
LocalSaveRefused(identifier, file_name, data, fault, written) ==
    LET out == LocalSaveFileRefused(fs, identifier, file_name, data, fault, written)
    IN  /\ LocalReady
        /\ fs' = out.fs
        /\ last' = Call("save_file", PyStr(identifier), PyStr(file_name), PyBytes(data),
                        fault, out, 0)
        /\ nops' = nops + 1
        /\ UNCHANGED <<aside, backend, settings, pc, ready, s3_client, bucket, objects, saved,
                       task, order>>

FaultInit == Init /\ backend = "local"

FaultNext ==
    \/ BaseInit
    \/ LocalInit
    \/ LocalCall
    \/ \E i \in Identifiers, f \in FileNames, d \in Payloads, x \in LocalFaults :
          \E n \in 0..(Len(d) - 1) : LocalSaveRefused(i, f, d, x, n)

SpecFault == FaultInit /\ [][FaultNext]_vars

\* no storage service has been constructed
StorageIdle ==
    /\ backend = "local"
    /\ settings = EmptyMap
    /\ environ = EmptyMap
    /\ pc = "new"
    /\ ready = FALSE
    /\ s3_client = FALSE
    /\ client_kwargs = EmptyMap
    /\ bucket = <<>>
    /\ fs = BaseTree
    /\ objects = EmptyMap
    /\ saved = EmptyMap
    /\ last = NoCall
    /\ nops = 0
    /\ task = [t \in Tasks |-> IdleTask]
    /\ order = <<>>

\* ------------------------------------------- construction on its own
\* A service is constructed from any of the settings objects, in any of the
\* environments.
ConsInit ==
    /\ backend \in {"local", "s3"}
    /\ settings \in IF backend = "s3" THEN S3Settings ELSE {EmptyMap}
    /\ environ \in IF backend = "s3" THEN Environments ELSE {EmptyMap}
    /\ pc = "new"
    /\ ready = FALSE
    /\ s3_client = FALSE
    /\ client_kwargs = EmptyMap
    /\ bucket = <<>>
    /\ fs = BaseTree
    /\ objects = EmptyMap
    /\ saved = EmptyMap
    /\ last = NoCall
    /\ nops = 0
    /\ task = [t \in Tasks |-> IdleTask]
    /\ order = <<>>
    /\ SchemaIdle
    /\ HarnessIdle

SpecCons == ConsInit /\ [][Construct]_vars

\* ------------------------------- concurrent calls on the local backend
\* The calls are coroutines of one event loop: a call runs alone from one
\* await to the next, and another call can run between two awaits. Each task
\* makes one call.
\* the data directory of a service that stored one file before the
\* concurrent calls begin: an earlier save_file of the longest payload
StoredPair == <<<<"a">>, <<"f">>>>
StoredPayload == [k \in 1..MaxLen |-> MaxLen]
StoredTree ==
    LocalSaveFile(BaseTree, StoredPair[1], StoredPair[2], StoredPayload).fs
StoredBefore == [pair \in {StoredPair} |-> StoredPayload]

ConcInit ==
    /\ backend = "local"
    /\ settings = EmptyMap
    /\ pc = "constructed"
    /\ ready = TRUE
    /\ s3_client = FALSE
    /\ bucket = <<>>
    /\ \/ fs \in InitialTrees /\ saved = EmptyMap
       \/ fs = StoredTree /\ saved = StoredBefore
    /\ objects = EmptyMap
    /\ last = NoCall
    /\ nops = 0
    /\ task = [t \in Tasks |-> IdleTask]
    /\ order = <<>>
    /\ environ = EmptyMap
    /\ client_kwargs = EmptyMap
    /\ SchemaIdle
    /\ HarnessIdle

TaskPath(t) == Join(Join(DataDir, task[t].identifier), task[t].file_name)
At(t, op, where) == task[t].op = op /\ task[t].pc = where
Goto(t, where) == task' = [task EXCEPT ![t].pc = where]
Raise(t, e) == task' = [task EXCEPT ![t].pc = "raised", ![t].exc = e]

\* save_file is called: folder_path is computed
BeginSave(t, identifier, file_name, data) ==
    /\ task[t].pc = "idle"
    /\ task' = [task EXCEPT ![t] = [op |-> "save_file", pc |-> "mkdir",
                                     identifier |-> identifier, file_name |-> file_name,
                                     data |-> data, exc |-> NoExc, ret |-> PyNone,
                                     held |-> PyNone]]
    /\ UNCHANGED <<aside, backend, settings, pc, ready, s3_client, bucket, fs, objects, saved,
                   last, nops, order>>

\* await folder_path.mkdir(parents=True, exist_ok=True)
SaveMkdir(t) ==
    LET made == Mkdir(fs, Join(DataDir, task[t].identifier))
    IN  /\ At(t, "save_file", "mkdir")
        /\ fs' = made.fs
        /\ IF made.exc = NoExc THEN Goto(t, "open") ELSE Raise(t, made.exc)
        /\ UNCHANGED <<aside, backend, settings, pc, ready, s3_client, bucket, objects, saved,
                       last, nops, order>>

\* async with async_open(str(file_path), "wb") as f: the file is opened
SaveOpen(t) ==
    LET opened == OpenWb(fs, TaskPath(t))
    IN  /\ At(t, "save_file", "open")
        /\ fs' = opened.fs
        /\ IF opened.exc = NoExc THEN Goto(t, "write") ELSE Raise(t, opened.exc)
        /\ UNCHANGED <<aside, backend, settings, pc, ready, s3_client, bucket, objects, saved,
                       last, nops, order>>

\* await f.write(data): the bytes go to the file that was opened, which has
\* no name in the tree anymore when it was unlinked since
SaveWrite(t) ==
    /\ At(t, "save_file", "write")
    /\ fs' = IF task[t].held = PyNone THEN WriteFile(fs, TaskPath(t), task[t].data) ELSE fs
    /\ order' = Append(order, t)
    /\ Goto(t, "close")
    /\ UNCHANGED <<aside, backend, settings, pc, ready, s3_client, bucket, objects, saved,
                   last, nops>>

\* the async with block is left: the file is closed, the call returns
SaveClose(t) ==
    /\ At(t, "save_file", "close")
    /\ Goto(t, "done")
    /\ UNCHANGED <<aside, backend, settings, pc, ready, s3_client, bucket, fs, objects, saved,
                   last, nops, order>>

\* get_file is called: file_path is computed
BeginGet(t, identifier, file_name) ==
    /\ task[t].pc = "idle"
    /\ task' = [task EXCEPT ![t] = [op |-> "get_file", pc |-> "exists",
                                     identifier |-> identifier, file_name |-> file_name,
                                     data |-> <<>>, exc |-> NoExc, ret |-> PyNone,
                                     held |-> PyNone]]
    /\ UNCHANGED <<aside, backend, settings, pc, ready, s3_client, bucket, fs, objects, saved,
                   last, nops, order>>

\* if not await file_path.exists(): raise FileNotFoundError
GetExists(t) ==
    /\ At(t, "get_file", "exists")
    /\ IF PathExists(fs, TaskPath(t)) THEN Goto(t, "open")
       ELSE Raise(t, Exc("FileNotFoundError"))
    /\ UNCHANGED <<aside, backend, settings, pc, ready, s3_client, bucket, fs, objects, saved,
                   last, nops, order>>

\* async_open(path, "rb"): the file that has the name now is opened
OpenRb(tree, path) ==
    IF PathIsDir(tree, path) THEN Exc("IsADirectoryError")
    ELSE IF ~PathExists(tree, path) THEN Exc("FileNotFoundError")
    ELSE NoExc

\* async with async_open(str(file_path), "rb") as f: the file is opened
GetOpen(t) ==
    /\ At(t, "get_file", "open")
    /\ IF OpenRb(fs, TaskPath(t)) = NoExc THEN Goto(t, "read")
       ELSE Raise(t, OpenRb(fs, TaskPath(t)))
    /\ UNCHANGED <<aside, backend, settings, pc, ready, s3_client, bucket, fs, objects, saved,
                   last, nops, order>>

\* content = await f.read(), and the call returns content: the bytes that the
\* opened file holds at this moment
GetRead(t) ==
    /\ At(t, "get_file", "read")
    /\ task' = [task EXCEPT ![t].pc = "done",
                            ![t].ret = IF task[t].held = PyNone
                                       THEN PyBytes(fs[TaskPath(t)].content)
                                       ELSE task[t].held]
    /\ UNCHANGED <<aside, backend, settings, pc, ready, s3_client, bucket, fs, objects, saved,
                   last, nops, order>>

\* delete_file is called: file_path is computed
BeginDelete(t, identifier, file_name) ==
    /\ task[t].pc = "idle"
    /\ task' = [task EXCEPT ![t] = [op |-> "delete_file", pc |-> "exists",
                                     identifier |-> identifier, file_name |-> file_name,
                                     data |-> <<>>, exc |-> NoExc, ret |-> PyNone,
                                     held |-> PyNone]]
    /\ UNCHANGED <<aside, backend, settings, pc, ready, s3_client, bucket, fs, objects, saved,
                   last, nops, order>>

\* if await file_path.exists(): ... else: logger.warning(...), and the call
\* returns
DeleteExists(t) ==
    /\ At(t, "delete_file", "exists")
    /\ IF PathExists(fs, TaskPath(t)) THEN Goto(t, "unlink") ELSE Goto(t, "done")
    /\ UNCHANGED <<aside, backend, settings, pc, ready, s3_client, bucket, fs, objects, saved,
                   last, nops, order>>

\* the call has the file at the path open
HasOpen(u, path) ==
    /\ TaskPath(u) = path
    /\ \/ task[u].op = "save_file" /\ task[u].pc \in {"write", "close"}
       \/ task[u].op = "get_file" /\ task[u].pc = "read"

\* await file_path.unlink(), and the call returns: the name is removed; a
\* call that has the file open keeps the file, with the bytes it holds
DeleteUnlink(t) ==
    LET path == TaskPath(t)
        gone == Unlink(fs, path)
    IN  /\ At(t, "delete_file", "unlink")
        /\ fs' = gone.fs
        /\ task' = [u \in Tasks |->
                      IF u = t
                      THEN IF gone.exc = NoExc THEN [task[t] EXCEPT !.pc = "done"]
                           ELSE [task[t] EXCEPT !.pc = "raised", !.exc = gone.exc]
                      ELSE IF gone.exc = NoExc /\ HasOpen(u, path) /\ task[u].held = PyNone
                      THEN [task[u] EXCEPT !.held = PyBytes(fs[path].content)]
                      ELSE task[u]]
        /\ UNCHANGED <<aside, backend, settings, pc, ready, s3_client, bucket, objects, saved,
                       last, nops, order>>

ConcNext ==
    \E t \in Tasks :
        \/ \E i \in Identifiers, f \in FileNames, d \in Payloads : BeginSave(t, i, f, d)
        \/ SaveMkdir(t)
        \/ SaveOpen(t)
        \/ SaveWrite(t)
        \/ SaveClose(t)
        \/ \E i \in Identifiers, f \in FileNames : BeginGet(t, i, f)
        \/ GetExists(t)
        \/ GetOpen(t)
        \/ GetRead(t)
        \/ \E i \in Identifiers, f \in FileNames : BeginDelete(t, i, f)
        \/ DeleteExists(t)
        \/ DeleteUnlink(t)

SpecConc == ConcInit /\ [][ConcNext]_vars

\* ------------------------------------------------- the schema records
\* more Python values: dicts (maps from keys to values), tuples, sets,
\* booleans, floats, and an argument the caller did not pass
PyDict(d) == [type |-> "dict", val |-> d]
PyTuple(l) == [type |-> "tuple", val |-> l]
PySet(S) == [type |-> "set", val |-> S]
PyBool(b) == [type |-> "bool", val |-> b]
PyFloat(x) == [type |-> "float", val |-> x]
Absent == [type |-> "absent", val |-> <<>>]

ValidationError == Exc("ValidationError")
\* the outcome of validating one value: the validated value or the error
Valid(v) == [ret |-> v, exc |-> NoExc]
Invalid == [ret |-> PyNone, exc |-> ValidationError]

\* bytes.decode(): the bytes used here are single-byte code points or 0xff,
\* which no UTF-8 text holds
Utf8Valid(b) == \A k \in DOMAIN b : b[k] < 128
Chr(byte) == IF byte = 97 THEN "a" ELSE IF byte = 116 THEN "t" ELSE "?"
Utf8Decode(b) == [k \in DOMAIN b |-> Chr(b[k])]

\* a field annotated str. Strict: a str only. Lax, the mode of a model with
\* no configuration: bytes that decode are accepted and stored decoded
StrictStr(v) == IF v.type = "str" THEN Valid(v) ELSE Invalid
LaxStr(v) ==
    IF v.type = "str" THEN Valid(v)
    ELSE IF v.type = "bytes" /\ Utf8Valid(v.val) THEN Valid(PyStr(Utf8Decode(v.val)))
    ELSE Invalid

\* a field annotated list: lax mode accepts a tuple or a set and stores a list
StrictList(v) == IF v.type = "list" THEN Valid(v) ELSE Invalid
LaxList(v) ==
    IF v.type = "list" THEN Valid(v)
    ELSE IF v.type = "tuple" THEN Valid(PyList(v.val))
    ELSE IF v.type = "set" THEN Valid(PyList(SeqOf(v.val)))
    ELSE Invalid

\* a field annotated dict
StrictDict(v) == IF v.type = "dict" THEN Valid(v) ELSE Invalid

\* a TypedDict whose keys are all required and all annotated str: a dict
\* that has them, each with a value the str validator takes; keys that are
\* not declared are dropped
TypedDictOf(keys, v, strict) ==
    LET str(x) == IF strict THEN StrictStr(x) ELSE LaxStr(x)
    IN  IF /\ v.type = "dict"
           /\ keys \subseteq DOMAIN v.val
           /\ \A key \in keys : str(v.val[key]).exc = NoExc
        THEN Valid(PyDict([key \in keys |-> str(v.val[key]).ret]))
        ELSE Invalid

\* class StreamURL(TypedDict) and class ErrorLog(TypedDict)
StreamURLKeys == {"location"}
ErrorLogKeys == {"errorMessage", "stackTrace"}

\* the members of ErrorLog | StreamURL | dict | list | str, in their order,
\* validated strictly and validated laxly
StrictMembers(v) ==
    <<TypedDictOf(ErrorLogKeys, v, TRUE), TypedDictOf(StreamURLKeys, v, TRUE),
      StrictDict(v), StrictList(v), StrictStr(v)>>
LaxMembers(v) ==
    <<TypedDictOf(ErrorLogKeys, v, FALSE), TypedDictOf(StreamURLKeys, v, FALSE),
      StrictDict(v), LaxList(v), LaxStr(v)>>

\* the first outcome of a list of outcomes that is no error
FirstValid(outcomes) ==
    IF \E k \in DOMAIN outcomes : outcomes[k].exc = NoExc
    THEN outcomes[CHOOSE k \in DOMAIN outcomes :
                     /\ outcomes[k].exc = NoExc
                     /\ \A j \in 1..(k - 1) : outcomes[j].exc # NoExc]
    ELSE Invalid

\* mutant of ValidateMessage: every member of the union is validated strictly
ValidateMessage_Strict(v) == FirstValid(StrictMembers(v))

\* the union of the field message: a member that takes the value as it is
\* wins; when there is none, a member that takes it after conversion
ValidateMessage(v) ==
    IF FirstValid(StrictMembers(v)).exc = NoExc THEN FirstValid(StrictMembers(v))
    ELSE FirstValid(LaxMembers(v))

\* OutputValue(message=..., type=...): both fields are required; the object
\* exists when both validate
OutputValue(message, type) ==
    LET m == ValidateMessage(message)
        t == LaxStr(type)
    IN  IF m.exc # NoExc \/ t.exc # NoExc THEN Invalid
        ELSE Valid([type |-> "OutputValue", val |-> [message |-> m.ret, type |-> t.ret]])

\* class LogType(str, Enum): the members, by name, with their values
LogTypeMembers ==
    <<[name |-> "MESSAGE", value |-> <<"m", "e", "s", "s", "a", "g", "e">>],
      [name |-> "DATA", value |-> <<"d", "a", "t", "a">>],
      [name |-> "STREAM", value |-> <<"s", "t", "r", "e", "a", "m">>],
      [name |-> "OBJECT", value |-> <<"o", "b", "j", "e", "c", "t">>],
      [name |-> "ARRAY", value |-> <<"a", "r", "r", "a", "y">>],
      [name |-> "TEXT", value |-> <<"t", "e", "x", "t">>],
      [name |-> "UNKNOWN", value |-> <<"u", "n", "k", "n", "o", "w", "n">>]>>

\* str.upper() and str.lower() on the letters of the member values
LowerCase == <<"a", "b", "c", "d", "e", "g", "j", "k", "m", "n", "o", "r", "s", "t", "u",
               "w", "x", "y">>
UpperCase == <<"A", "B", "C", "D", "E", "G", "J", "K", "M", "N", "O", "R", "S", "T", "U",
               "W", "X", "Y">>
Translate(c, from, to) ==
    IF \E k \in DOMAIN from : from[k] = c
    THEN to[CHOOSE k \in DOMAIN from : from[k] = c]
    ELSE c
Upper(s) == [k \in DOMAIN s |-> Translate(s[k], LowerCase, UpperCase)]
Lower(s) == [k \in DOMAIN s |-> Translate(s[k], UpperCase, LowerCase)]

\* mutant of LogTypeCall: the value is looked up without regard to case
LogTypeCall_AnyCase(v) ==
    IF v.type = "str" /\ \E k \in DOMAIN LogTypeMembers : LogTypeMembers[k].value = Lower(v.val)
    THEN Valid([type |-> "LogType",
                val |-> LogTypeMembers[CHOOSE k \in DOMAIN LogTypeMembers :
                                          LogTypeMembers[k].value = Lower(v.val)]])
    ELSE [ret |-> PyNone, exc |-> Exc("ValueError")]

\* LogType(value): the member that has the value; ValueError when none has
LogTypeCall(v) ==
    IF v.type = "str" /\ \E k \in DOMAIN LogTypeMembers : LogTypeMembers[k].value = v.val
    THEN Valid([type |-> "LogType",
                val |-> LogTypeMembers[CHOOSE k \in DOMAIN LogTypeMembers :
                                          LogTypeMembers[k].value = v.val]])
    ELSE [ret |-> PyNone, exc |-> Exc("ValueError")]

\* the values a caller can pass as message: dicts of the two TypedDict
\* shapes and others, lists, strings, and values of no permitted shape
MessageArgs ==
    {PyDict([key \in ErrorLogKeys |-> PyStr(<<"e">>)]),
     PyDict([key \in StreamURLKeys |-> PyStr(<<"u">>)]),
     PyDict([key \in StreamURLKeys |-> PyBytes(<<97>>)]),
     PyDict([key \in {"k"} |-> PyInt(1)]),
     PyDict(EmptyMap),
     PyList(<<PyInt(1)>>), PyList(<<>>),
     PyStr(<<"x">>), PyStr(<<>>),
     PyInt(1), PyFloat(1), PyBool(TRUE), PyNone, Absent,
     PyBytes(<<97>>), PyBytes(<<255>>), PyTuple(<<PyInt(1)>>), PySet({PyInt(1)})}
\* the values a caller can pass as type
TypeArgs == {PyStr(<<"t">>), PyStr(<<>>), PyInt(1), PyNone, Absent, PyBytes(<<116>>)}
\* the values a caller can pass to LogType: the seven values, and strings
\* near them
LogTypeValues == {LogTypeMembers[k].value : k \in DOMAIN LogTypeMembers}
LogTypeArgs ==
    {PyStr(v) : v \in LogTypeValues}
    \cup {PyStr(Upper(v)) : v \in LogTypeValues}
    \cup {PyStr(Append(v, "s")) : v \in LogTypeValues}
    \cup {PyStr(SubSeq(v, 1, Len(v) - 1)) : v \in LogTypeValues}
    \cup {PyStr(<<>>), PyStr(<<"l", "o", "g">>)}

\* a construction, as the caller sees it
Construction(cls, args, out) == [cls |-> cls, args |-> args, exc |-> out.exc, ret |-> out.ret]
\* the objects that exist after a construction
Existing(out) == IF out.exc = NoExc THEN instances \cup {out.ret} ELSE instances

ConstructOutputValue(message, type) ==
    LET out == OutputValue(message, type)
    IN  /\ Cardinality(instances) < MaxOps
        /\ constructed' = Construction("OutputValue", <<message, type>>, out)
        /\ instances' = Existing(out)
        /\ UNCHANGED <<storageVars, harnessVars>>

ConstructLogType(value) ==
    LET out == LogTypeCall(value)
    IN  /\ Cardinality(instances) < MaxOps
        /\ constructed' = Construction("LogType", <<value>>, out)
        /\ instances' = Existing(out)
        /\ UNCHANGED <<storageVars, harnessVars>>

SchemaNext ==
    \/ \E message \in MessageArgs, type \in TypeArgs : ConstructOutputValue(message, type)
    \/ \E value \in LogTypeArgs : ConstructLogType(value)

\* Schema objects are constructed one after the other, from any arguments.
SchemaInit == StorageIdle /\ SchemaIdle /\ HarnessIdle
SpecSchema == SchemaInit /\ [][SchemaNext]_vars

\* ------------------------------------- the facade and its test harness
\* A module is named by the segments of its dotted name. A name bound in a
\* namespace holds an object, known by the module it was obtained from and
\* its name there.
Object(origin, name) == [origin |-> origin, name |-> name]

\* what importing a module does in an environment: it succeeds ("ok"),
\* succeeds after more than a second ("slow"), succeeds but the module lacks
\* the names asked of it ("bare"), raises ImportError, or raises another
\* exception ("error")
ImportOutcomes == {"ok", "slow", "bare", "ImportError", "error"}
OutcomeOf(env, module) == GetAttr(env, module, "ok")
Importable(env, module) == OutcomeOf(env, module) \in {"ok", "slow", "bare"}
\* the exception of an import that fails
ImportExc(env, module) ==
    IF OutcomeOf(env, module) = "ImportError" THEN Exc("ImportError") ELSE Exc("RuntimeError")

\* langflow/custom/__init__.py
Custom == <<"langflow", "custom">>

\* one import statement: `from source import names`, the names being
\* submodules of source or attributes of it
FromImport(source, names, kind) == [source |-> source, names |-> names, kind |-> kind]

\* mutant of CustomBody: the statement `from . import validate` is missing
CustomBody_NoValidate ==
    <<FromImport(<<"lfx">>, <<"custom">>, "module"),
      FromImport(<<"lfx", "custom">>, <<"custom_component">>, "module"),
      FromImport(<<"lfx", "custom">>, <<"utils">>, "module"),
      FromImport(<<"lfx", "custom", "custom_component", "component">>,
                 <<"Component", "_get_component_toolkit">>, "attr"),
      FromImport(<<"lfx", "custom", "custom_component", "custom_component">>,
                 <<"CustomComponent">>, "attr"),
      FromImport(<<"lfx", "custom", "utils">>, <<"build_custom_component_template">>, "attr"),
      FromImport(<<"lfx", "custom", "validate">>,
                 <<"create_class", "create_function", "extract_class_name",
                   "extract_function_name">>, "attr")>>

\* the import statements of langflow/custom/__init__.py, in their order
CustomBody ==
    <<FromImport(<<"lfx">>, <<"custom">>, "module"),
      FromImport(<<"lfx", "custom">>, <<"custom_component">>, "module"),
      FromImport(<<"lfx", "custom">>, <<"utils">>, "module"),
      FromImport(<<"lfx", "custom", "custom_component", "component">>,
                 <<"Component", "_get_component_toolkit">>, "attr"),
      FromImport(<<"lfx", "custom", "custom_component", "custom_component">>,
                 <<"CustomComponent">>, "attr"),
      FromImport(<<"lfx", "custom", "utils">>, <<"build_custom_component_template">>, "attr"),
      FromImport(<<"lfx", "custom", "validate">>,
                 <<"create_class", "create_function", "extract_class_name",
                   "extract_function_name">>, "attr"),
      FromImport(Custom, <<"validate">>, "module")>>

\* __all__ of langflow/custom/__init__.py
CustomAll ==
    <<"Component", "CustomComponent", "_get_component_toolkit",
      "build_custom_component_template", "create_class", "create_function", "custom",
      "custom_component", "extract_class_name", "extract_function_name", "utils",
      "validate">>

\* the names a module has from the start
ModuleNamespace(module, marker) ==
    [n \in {"__name__", marker} |-> Object(module, n)]

\* one import statement, executed in a namespace: the namespace with the
\* names bound, or the exception that the statement raises
ExecFromImport(env, statement, namespace) ==
    LET source == statement.source
        names == Range(statement.names)
        submodule(n) == source \o <<n>>
    IN  IF source # Custom /\ ~Importable(env, source)
        THEN [namespace |-> namespace, exc |-> ImportExc(env, source)]
        ELSE IF statement.kind = "attr" /\ OutcomeOf(env, source) = "bare"
        THEN [namespace |-> namespace, exc |-> Exc("ImportError")]
        ELSE IF /\ statement.kind = "module"
                /\ \E n \in names : ~Importable(env, submodule(n))
        THEN [namespace |-> namespace,
              exc |-> ImportExc(env, submodule(CHOOSE n \in names :
                                                  ~Importable(env, submodule(n))))]
        ELSE [namespace |-> [n \in DOMAIN namespace \cup names |->
                                IF n \in names THEN Object(source, n) ELSE namespace[n]],
              exc |-> NoExc]

\* the statements from the k-th on, executed in their order up to the first
\* that raises
RECURSIVE ExecBody(_, _, _, _)
ExecBody(env, body, k, namespace) ==
    IF k > Len(body) THEN [namespace |-> namespace, exc |-> NoExc]
    ELSE LET done == ExecFromImport(env, body[k], namespace)
         IN  IF done.exc # NoExc THEN done
             ELSE ExecBody(env, body, k + 1, done.namespace)

\* the names the test harness asks of the modules it probes
ProbedNames(module) ==
    IF module = <<"langflow", "schema">> THEN {"Data"}
    ELSE IF module = <<"langflow", "inputs">> THEN {"StrInput", "IntInput"}
    ELSE IF module = <<"langflow", "base">> THEN {"Component"}
    ELSE IF module = <<"langflow", "field_typing">> THEN {"Text", "Data"}
    ELSE IF module = <<"langflow", "load">> THEN {"load_flow_from_json"}
    ELSE IF module = <<"langflow", "logging">> THEN {"logger"}
    ELSE {}

\* the module object that executing a module gives: for langflow.custom its
\* body is executed and __all__ assigned; any other module has its identity
\* and, unless it is bare, the names asked of it
ExecModule(env, module) ==
    IF module = Custom
    THEN LET done == ExecBody(env, CustomBody, 1, ModuleNamespace(Custom, "__path__"))
         IN  IF done.exc # NoExc THEN done
             ELSE [namespace |-> MapPut(done.namespace, "__all__", Object(Custom, "__all__")),
                   exc |-> NoExc]
    ELSE IF ~Importable(env, module)
    THEN [namespace |-> EmptyMap, exc |-> ImportExc(env, module)]
    ELSE [namespace |->
             LET own == ModuleNamespace(module, "__file__")
                 asked == IF OutcomeOf(env, module) = "bare" THEN {} ELSE ProbedNames(module)
             IN  [n \in DOMAIN own \cup asked |->
                     IF n \in asked THEN Object(module, n) ELSE own[n]],
          exc |-> NoExc]

\* importlib.import_module(name): the module of sys.modules when it is
\* there; else the module is executed, and is kept in sys.modules when that
\* raises nothing. An import is slow only when it executes a slow module.
ImportModule(env, modules, module) ==
    IF module \in DOMAIN modules
    THEN [modules |-> modules, exc |-> NoExc, slow |-> FALSE]
    ELSE LET done == ExecModule(env, module)
         IN  IF done.exc # NoExc
             THEN [modules |-> modules, exc |-> done.exc, slow |-> FALSE]
             ELSE [modules |-> MapPut(modules, module, done.namespace), exc |-> NoExc,
                   slow |-> OutcomeOf(env, module) = "slow"]

\* the tables of TestLfxReexportModules: dicts, kept as the lists of their
\* items (facade module, underlying module or modules)
DIRECT_REEXPORT_MODULES ==
    <<<<<<"langflow", "base", "agents">>, <<"lfx", "base", "agents">>>>,
      <<<<"langflow", "base", "data">>, <<"lfx", "base", "data">>>>,
      <<<<"langflow", "base", "embeddings">>, <<"lfx", "base", "embeddings">>>>,
      <<<<"langflow", "base", "io">>, <<"lfx", "base", "io">>>>,
      <<<<"langflow", "base", "memory">>, <<"lfx", "base", "memory">>>>,
      <<<<"langflow", "base", "models">>, <<"lfx", "base", "models">>>>,
      <<<<"langflow", "base", "prompts">>, <<"lfx", "base", "prompts">>>>,
      <<<<"langflow", "base", "textsplitters">>, <<"lfx", "base", "textsplitters">>>>,
      <<<<"langflow", "base", "tools">>, <<"lfx", "base", "tools">>>>,
      <<<<"langflow", "base", "vectorstores">>, <<"lfx", "base", "vectorstores">>>>,
      <<<<"langflow", "custom", "custom_component">>, <<"lfx", "custom", "custom_component">>>>,
      <<<<"langflow", "graph">>, <<"lfx", "graph">>>>,
      <<<<"langflow", "inputs">>, <<"lfx", "inputs", "inputs">>>>,
      <<<<"langflow", "interface">>, <<"lfx", "interface">>>>,
      <<<<"langflow", "load">>, <<"lfx", "load">>>>,
      <<<<"langflow", "logging">>, <<"lfx", "log">>>>,
      <<<<"langflow", "schema">>, <<"lfx", "schema">>>>,
      <<<<"langflow", "template", "field">>, <<"lfx", "template", "field">>>>>>

WILDCARD_REEXPORT_MODULES ==
    <<<<<<"langflow", "base">>, <<"lfx", "base">>>>,
      <<<<"langflow", "template">>, <<"lfx", "template">>>>>>

COMPLEX_REEXPORT_MODULES ==
    <<<<<<"langflow", "custom">>, <<<<"lfx", "custom">>, <<"lfx", "custom", "custom_component">>, <<"lfx", "custom", "utils">>>>>>,
      <<<<"langflow", "io">>, <<<<"lfx", "io">>, <<"lfx", "template">>>>>>>>

DYNAMIC_REEXPORT_MODULES ==
    <<<<<<"langflow", "field_typing">>, <<"lfx", "field_typing">>>>>>

\* the modules that the docstring of the test module lists by name, and the
\* number of modules it says it lists
DocumentedModules ==
    {<<"langflow", "base">>,
     <<"langflow", "base", "agents">>,
     <<"langflow", "base", "data">>,
     <<"langflow", "base", "embeddings">>,
     <<"langflow", "base", "io">>,
     <<"langflow", "base", "memory">>,
     <<"langflow", "base", "models">>,
     <<"langflow", "base", "prompts">>,
     <<"langflow", "base", "textsplitters">>,
     <<"langflow", "base", "tools">>,
     <<"langflow", "base", "vectorstores">>,
     <<"langflow", "custom">>,
     <<"langflow", "custom", "custom_component">>,
     <<"langflow", "field_typing">>,
     <<"langflow", "graph">>,
     <<"langflow", "inputs">>,
     <<"langflow", "interface">>,
     <<"langflow", "io">>,
     <<"langflow", "load">>,
     <<"langflow", "logging">>,
     <<"langflow", "schema">>,
     <<"langflow", "template">>,
     <<"langflow", "template", "field">>}
DocumentedCount == 24

\* dict.update and d[key] = value on a dict kept as the list of its items in
\* insertion order: the value of a key that is there is replaced
DictSet(d, key, value) ==
    IF \E k \in DOMAIN d : d[k][1] = key
    THEN [k \in DOMAIN d |-> IF d[k][1] = key THEN <<key, value>> ELSE d[k]]
    ELSE Append(d, <<key, value>>)
RECURSIVE DictUpdate(_, _)
DictUpdate(d, items) ==
    IF items = <<>> THEN d
    ELSE DictUpdate(DictSet(d, Head(items)[1], Head(items)[2]), Tail(items))
\* dict.keys()
Keys(d) == {d[k][1] : k \in DOMAIN d}

\* mutant of StructureModules: the complex modules are not added
StructureModules_NoComplex ==
    DictUpdate(DictUpdate(DictUpdate(<<>>, DIRECT_REEXPORT_MODULES),
                          WILDCARD_REEXPORT_MODULES),
               DYNAMIC_REEXPORT_MODULES)

\* all_modules of test_all_reexport_modules_have_required_structure
StructureModules ==
    DictUpdate(DictUpdate(DictUpdate(DictUpdate(<<>>, DIRECT_REEXPORT_MODULES),
                                     WILDCARD_REEXPORT_MODULES),
                          DYNAMIC_REEXPORT_MODULES),
               COMPLEX_REEXPORT_MODULES)

\* all_tested_modules of test_coverage_completeness
AllTestedModules ==
    Keys(DIRECT_REEXPORT_MODULES) \cup Keys(WILDCARD_REEXPORT_MODULES)
        \cup Keys(COMPLEX_REEXPORT_MODULES) \cup Keys(DYNAMIC_REEXPORT_MODULES)

\* backward_compatible_imports
BackwardCompatibleImports ==
    <<<<<<"langflow", "schema">>, "Data">>,
      <<<<"langflow", "inputs">>, "StrInput">>,
      <<<<"langflow", "inputs">>, "IntInput">>,
      <<<<"langflow", "base">>, "Component">>,
      <<<<"langflow", "custom">>, "CustomComponent">>,
      <<<<"langflow", "field_typing">>, "Text">>,
      <<<<"langflow", "field_typing">>, "Data">>,
      <<<<"langflow", "load">>, "load_flow_from_json">>,
      <<<<"langflow", "logging">>, "logger">>>>

\* performance_critical_modules
PerformanceCriticalModules ==
    <<<<"langflow", "schema">>, <<"langflow", "inputs">>, <<"langflow", "field_typing">>,
      <<"langflow", "load">>, <<"langflow", "logging">>>>

\* the environments: every module imports well, or one module does not
Fragile ==
    {<<"langflow", "schema">>, <<"langflow", "inputs">>, <<"langflow", "base">>,
     <<"langflow", "field_typing">>, <<"langflow", "load">>, <<"langflow", "logging">>,
     <<"langflow", "graph">>, <<"langflow", "custom", "validate">>, <<"lfx">>,
     <<"lfx", "custom", "utils">>, <<"lfx", "custom", "validate">>}
Installations ==
    {EmptyMap} \cup {[m \in {module} |-> o] : module \in Fragile, o \in ImportOutcomes \ {"ok"}}

\* the tests that loop over a list of modules
LoopTests == {"structure", "backward", "performance"}
Running(test) == harness.test = test /\ harness.result = "running"
\* the test goes on with its next item
Continue(failed, slow) ==
    [harness EXCEPT !.k = @ + 1, !.failed = failed, !.slow = slow]
\* the test ends: it passes, it fails (pytest.fail or a failed assert of its
\* own), or an exception leaves it
End(result) == [harness EXCEPT !.result = result]

\* a test function of TestLfxReexportModules is called
StartTest(test) ==
    /\ harness.result # "running"
    /\ harness' = [test |-> test, k |-> 1, visited |-> <<>>, failed |-> <<>>,
                   slow |-> <<>>, count |-> 0, result |-> "running"]
    /\ UNCHANGED <<storageVars, schemaVars, installed, sys_modules>>

\* test_all_reexport_modules_have_required_structure, one module of the loop
StructureStep ==
    LET langflow_module == StructureModules[harness.k][1]
        imported == ImportModule(installed, sys_modules, langflow_module)
        lf_module == imported.modules[langflow_module]
        structured == /\ imported.exc = NoExc
                      /\ "__name__" \in DOMAIN lf_module
                      /\ "__file__" \in DOMAIN lf_module \/ "__path__" \in DOMAIN lf_module
    IN  /\ Running("structure")
        /\ harness.k <= Len(StructureModules)
        /\ sys_modules' = imported.modules
        /\ harness' = [Continue(IF structured THEN harness.failed
                                ELSE Append(harness.failed, langflow_module),
                                harness.slow)
                          EXCEPT !.visited = Append(@, langflow_module)]
        /\ UNCHANGED <<storageVars, schemaVars, installed>>

\* after the loop: pytest.fail when a module failed
StructureEnd ==
    /\ Running("structure")
    /\ harness.k > Len(StructureModules)
    /\ harness' = End(IF harness.failed # <<>> THEN "failed" ELSE "passed")
    /\ UNCHANGED <<storageVars, schemaVars, installed, sys_modules>>

\* the bounds test_coverage_completeness asserts on the number of modules
MinModules == 20
MaxModules == 30

\* test_coverage_completeness
CoverageTest ==
    LET actual_count == Cardinality(AllTestedModules)
    IN  /\ harness.result # "running"
        /\ harness' = [test |-> "coverage", k |-> 1, visited |-> <<>>, failed |-> <<>>,
                       slow |-> <<>>, count |-> actual_count,
                       result |-> IF actual_count >= MinModules /\ actual_count <= MaxModules
                                  THEN "passed" ELSE "failed"]
        /\ UNCHANGED <<storageVars, schemaVars, installed, sys_modules>>

\* test_reexport_modules_backward_compatibility, one pair of the loop: every
\* exception is caught and recorded
BackwardStep ==
    LET module_name == BackwardCompatibleImports[harness.k][1]
        symbol_name == BackwardCompatibleImports[harness.k][2]
        imported == ImportModule(installed, sys_modules, module_name)
        resolved == /\ imported.exc = NoExc
                    /\ symbol_name \in DOMAIN imported.modules[module_name]
    IN  /\ Running("backward")
        /\ harness.k <= Len(BackwardCompatibleImports)
        /\ sys_modules' = imported.modules
        /\ harness' = Continue(IF resolved THEN harness.failed
                               ELSE Append(harness.failed, <<module_name, symbol_name>>),
                               harness.slow)
        /\ UNCHANGED <<storageVars, schemaVars, installed>>

\* after the loop: the failures are not looked at
BackwardEnd ==
    /\ Running("backward")
    /\ harness.k > Len(BackwardCompatibleImports)
    /\ harness' = End("passed")
    /\ UNCHANGED <<storageVars, schemaVars, installed, sys_modules>>

\* test_reexport_modules_performance, one module of the loop: ImportError is
\* caught, any other exception of the import leaves the test
PerformanceStep ==
    LET module_name == PerformanceCriticalModules[harness.k]
        imported == ImportModule(installed, sys_modules, module_name)
    IN  /\ Running("performance")
        /\ harness.k <= Len(PerformanceCriticalModules)
        /\ sys_modules' = imported.modules
        /\ harness' = IF imported.exc = NoExc
                      THEN Continue(harness.failed,
                                    IF imported.slow THEN Append(harness.slow, module_name)
                                    ELSE harness.slow)
                      ELSE IF imported.exc.cls = "ImportError"
                      THEN Continue(harness.failed, harness.slow)
                      ELSE End("raised")
        /\ UNCHANGED <<storageVars, schemaVars, installed>>

\* after the loop: the slow imports are not looked at
PerformanceEnd ==
    /\ Running("performance")
    /\ harness.k > Len(PerformanceCriticalModules)
    /\ harness' = End("passed")
    /\ UNCHANGED <<storageVars, schemaVars, installed, sys_modules>>

HarnessNext ==
    \/ \E test \in LoopTests : StartTest(test)
    \/ StructureStep
    \/ StructureEnd
    \/ CoverageTest
    \/ BackwardStep
    \/ BackwardEnd
    \/ PerformanceStep
    \/ PerformanceEnd

\* The tests of the harness run one after the other, in any order, in one
\* process and one environment.
HarnessInit ==
    /\ StorageIdle
    /\ SchemaIdle
    /\ installed \in Installations
    /\ sys_modules = EmptyMap
    /\ harness = NoTest
SpecHarness == HarnessInit /\ [][HarnessNext]_vars

\* ----------------------------------------------------- the claims
\* every pair of a provided identifier and a provided file name
Pairs == Identifiers \X FileNames

\* what a call would give in the current state, the provider answering
GetNow(pair) ==
    IF backend = "local" THEN LocalGetFile(fs, pair[1], pair[2])
    ELSE S3GetFile(objects, PyStr(pair[1]), PyStr(pair[2]), "none")
SizeNow(pair) ==
    IF backend = "local" THEN LocalGetFileSize(fs, pair[1], pair[2])
    ELSE S3GetFileSize(objects, PyStr(pair[1]), PyStr(pair[2]), "none")
ListNow(identifier) ==
    IF backend = "local" THEN LocalListFiles(fs, identifier)
    ELSE S3ListFiles(objects, PyStr(identifier), "none")

\* what the caller of a call sees of it: the exception or the value returned
Seen(out) == [exc |-> out.exc, ret |-> out.ret]

\* the last call was `op`, with identifier and file name provided, and the
\* provider answered it
Answered(call, op) ==
    /\ call.op = op
    /\ Truthy(call.identifier)
    /\ Truthy(call.file_name)
    /\ call.fault = "none"
LastPair == <<last.identifier.val, last.file_name.val>>

\* the error kind NotFound: FileNotFoundError of the local backend, the
\* provider's NoSuchKey error response of the S3 backend
IsNotFound(e) ==
    \/ e.cls = "FileNotFoundError"
    \/ e.cls = "ClientError" /\ e.code = "NoSuchKey"

\* C1: on each backend, a save_file(identifier, file_name, data) that
\* completes, directly followed by get_file(identifier, file_name), makes
\* get_file return exactly the bytes written, the empty payload included.
C1_SaveThenGet ==
    [][(/\ last.op = "save_file"
        /\ last.exc = NoExc
        /\ nops' = nops + 1
        /\ Answered(last', "get_file")
        /\ last'.identifier = last.identifier
        /\ last'.file_name = last.file_name)
       => (last'.exc = NoExc /\ last'.ret = last.data)]_vars

\* C1 witness: on the S3 backend a get_file returned the empty payload that a
\* completed save_file had stored
C1_Witness ==
    /\ backend = "s3"
    /\ Answered(last, "get_file")
    /\ last.was = PyBytes(<<>>)
    /\ last.exc = NoExc
    /\ last.ret = PyBytes(<<>>)

\* C2: after any sequence of completed save_file and delete_file calls,
\* get_file of a pair returns the payload of the most recent save_file to the
\* pair that no delete_file of the pair followed; and a save_file of bytes to a
\* pair that already holds a payload completes.
C2_Overwrite ==
    /\ \A pair \in DOMAIN saved :
          /\ GetNow(pair).exc = NoExc
          /\ GetNow(pair).ret = PyBytes(saved[pair])
    /\ (/\ Answered(last, "save_file")
        /\ last.data.type = "bytes"
        /\ last.was # PyNone) => last.exc = NoExc

\* C2 witness: on the local backend a second save_file replaced a different,
\* longer payload of the same pair, and get_file returns the second payload
C2_Witness ==
    /\ backend = "local"
    /\ Answered(last, "save_file")
    /\ last.exc = NoExc
    /\ last.was # PyNone
    /\ Len(last.was.val) > Len(last.data.val)
    /\ GetNow(LastPair).ret = last.data

\* C3: get_file of a pair (identifier and file name provided) that was never
\* saved, or was saved and then deleted, fails with NotFound on both backends
\* and returns no bytes.
C3_GetMissing ==
    /\ \A pair \in Pairs \ DOMAIN saved :
          /\ IsNotFound(GetNow(pair).exc)
          /\ GetNow(pair).ret = PyNone
    /\ (Answered(last, "get_file") /\ last.was = PyNone)
          => (IsNotFound(last.exc) /\ last.ret = PyNone)

\* C3 witness: on the S3 backend a pair was saved, then deleted, and get_file
\* of it fails with NotFound
C3_Witness ==
    /\ backend = "s3"
    /\ Answered(last, "delete_file")
    /\ last.exc = NoExc
    /\ last.was # PyNone
    /\ IsNotFound(GetNow(LastPair).exc)

\* C4: delete_file of a pair with no stored file completes without raising
\* and leaves every stored file as it was; delete_file of a pair with a stored
\* file removes that file and no other, so that get_file of the pair fails.
C4_Delete ==
    [][\A pair \in Pairs :
        (/\ nops' = nops + 1
         /\ Answered(last', "delete_file")
         /\ pair = <<last'.identifier.val, last'.file_name.val>>)
        => /\ last'.exc = NoExc
           /\ \A q \in Pairs \ {pair} : Seen(GetNow(q))' = Seen(GetNow(q))
           /\ IF last'.was = PyNone
              THEN fs' = fs /\ objects' = objects
              ELSE GetNow(pair).exc = NoExc /\ IsNotFound(GetNow(pair)'.exc)]_vars

\* C4 witness: on the local backend one file is stored and delete_file of
\* another pair, which has no stored file, completed
C4_Witness ==
    /\ backend = "local"
    /\ Answered(last, "delete_file")
    /\ last.was = PyNone
    /\ last.exc = NoExc
    /\ DOMAIN saved # {}

\* C5: on the local backend list_files fails with NotFound when the
\* identifier directory does not exist or is not a directory; on the S3
\* backend list_files of a provided identifier with no stored object returns
\* the empty list and raises nothing.
C5_ListEmptyNamespace ==
    \A i \in Identifiers :
        /\ (backend = "local" /\ ~PathIsDir(fs, Join(DataDir, i)))
              => ListNow(i).exc.cls = "FileNotFoundError"
        /\ (backend = "s3" /\ \A f \in FileNames : <<i, f>> \notin DOMAIN saved)
              => (ListNow(i).exc = NoExc /\ ListNow(i).ret = PyList(<<>>))

\* C5 witness: on the local backend list_files failed with NotFound for an
\* identifier whose path is a regular file, not a directory
C5_Witness ==
    /\ backend = "local"
    /\ last.op = "list_files"
    /\ last.exc.cls = "FileNotFoundError"
    /\ PathIsFile(fs, Join(DataDir, last.identifier.val))

\* the operations of the S3 backend that take an identifier, and those that
\* take a file name too
S3Operations == {"save_file", "get_file", "list_files", "get_file_size", "delete_file"}
TakesFileName(op) == op # "list_files"

\* an argument the call needs is missing: the identifier, the file name of
\* an operation that takes one, the data of save_file
MissingArgument(call) ==
    \/ ~Truthy(call.identifier)
    \/ TakesFileName(call.op) /\ ~Truthy(call.file_name)
    \/ call.op = "save_file" /\ call.data.type = "NoneType"
\* the data of save_file is there and is not bytes
IllTypedData(call) ==
    /\ call.op = "save_file"
    /\ call.data.type \notin {"NoneType", "bytes"}

\* C6 as stated: every S3 operation fails with one and the same error kind
\* when the identifier or the file name is missing, and save_file with that
\* same kind when data is missing or is not a byte payload.
C6_OneInvalidInputKind ==
    (/\ backend = "s3"
     /\ last.op \in S3Operations
     /\ (MissingArgument(last) \/ IllTypedData(last)))
    => last.exc = Exc("ValueError")

\* C6 amended: every S3 operation fails with ValueError, without a request to
\* the provider, when the identifier or (where taken) the file name is
\* missing, and save_file also when data is None; save_file with identifier
\* and file name provided and data that is not None and not bytes fails with
\* another error, TypeError, also without a request.
C6_InvalidInput ==
    (backend = "s3" /\ last.op \in S3Operations)
    => /\ MissingArgument(last) => (last.exc = Exc("ValueError") /\ last.requests = 0)
       /\ (~MissingArgument(last) /\ IllTypedData(last))
             => (last.exc = Exc("TypeError") /\ last.requests = 0)
       /\ last.exc.cls \in {"ValueError", "TypeError"}
             => (MissingArgument(last) \/ IllTypedData(last))

\* C6 witness: save_file with identifier and file name provided and a str as
\* data raised TypeError
C6_Witness ==
    /\ backend = "s3"
    /\ last.op = "save_file"
    /\ ~MissingArgument(last)
    /\ last.data.type = "str"
    /\ last.exc = Exc("TypeError")

\* C7: get_file_size returns the byte count of the stored payload: the length
\* of the bytes most recently saved under the pair, which is the length of
\* what get_file returns in the same state; on the local backend it fails
\* with NotFound when the pair has no stored file.
C7_FileSize ==
    /\ \A pair \in DOMAIN saved :
          /\ SizeNow(pair).exc = NoExc
          /\ SizeNow(pair).ret = PyInt(Len(saved[pair]))
          /\ SizeNow(pair).ret = PyInt(Len(GetNow(pair).ret.val))
    /\ \A pair \in Pairs \ DOMAIN saved :
          backend = "local" => SizeNow(pair).exc.cls = "FileNotFoundError"
    /\ Answered(last, "get_file_size")
          => IF last.was # PyNone
             THEN last.exc = NoExc /\ last.ret = PyInt(Len(last.was.val))
             ELSE backend = "local" => last.exc.cls = "FileNotFoundError"

\* C7 witness: on the S3 backend get_file_size returned 2 for a pair that holds
\* a payload of two bytes
C7_Witness ==
    /\ backend = "s3"
    /\ Answered(last, "get_file_size")
    /\ last.was # PyNone
    /\ Len(last.was.val) = 2
    /\ last.ret = PyInt(2)

\* C9 as stated: ready is true only once the concrete backend has finished
\* constructing: never while construction is in progress or has failed, and
\* on the S3 backend never before the client has been built.
C9_ReadyOnlyWhenConstructed ==
    ready => (pc = "constructed" /\ (backend = "s3" => s3_client))

\* the log records of the last call hold one of level "exception"
LoggedException(call) == \E k \in DOMAIN call.logs : call.logs[k].level = "exception"

\* C10: an S3 save_file on valid input whose put fails raises, after logging,
\* and stores nothing: without credentials the provider's error itself; for
\* the error code NoSuchBucket another error, whose message names the configured
\* bucket; for any other error response the provider's error itself.
C10_SaveFailures ==
    [][(/\ backend = "s3"
        /\ nops' = nops + 1
        /\ last'.op = "save_file"
        /\ last'.fault # "none")
       => /\ objects' = objects
          /\ LoggedException(last')
          /\ last'.exc # NoExc
          /\ last'.fault = "NoCredentials" => last'.exc = NoCredentialsError
          /\ last'.fault = "NoSuchBucket"
                => /\ last'.exc.cls = "RuntimeError"
                   /\ last'.exc # ClientError("NoSuchBucket")
                   /\ last'.exc.bucket = bucket
                   /\ bucket # <<>>
          /\ last'.fault \notin {"NoCredentials", "NoSuchBucket"}
                => last'.exc = ClientError(last'.fault)]_vars

\* C10 witness: a save_file met a missing bucket and raised the error that
\* names the bucket the settings configure
C10_Witness ==
    /\ backend = "s3"
    /\ last.op = "save_file"
    /\ last.fault = "NoSuchBucket"
    /\ last.exc.cls = "RuntimeError"
    /\ "s3_bucket_name" \in DOMAIN settings
    /\ last.exc.bucket = settings["s3_bucket_name"]

\* C8 as stated: when two save_file calls to one pair with different payloads
\* run concurrently on the local backend, then once both have completed the
\* file holds the full payload of one of the two calls (the claim: of the one
\* that wrote last), never a mixture of the two payloads.
C8_LastWriteWins ==
    \A t \in Tasks, u \in Tasks :
        (/\ t # u
         /\ At(t, "save_file", "done")
         /\ At(u, "save_file", "done")
         /\ TaskPath(t) = TaskPath(u)
         /\ task[t].data # task[u].data
         /\ order[Len(order)] = u)
        => fs[TaskPath(u)].content \in {task[t].data, task[u].data}

\* a log record of the call carries the identifier and, for an operation that
\* takes one, the file name
LoggedWithContext(call) ==
    \E k \in DOMAIN call.logs :
        /\ call.logs[k].identifier
        /\ TakesFileName(call.op) => call.logs[k].file_name

\* C11 as stated: every error that a storage operation of either backend
\* raises to its caller is preceded, within the same call, by a log record
\* that carries the identifier and the file name.
C11_ErrorsLogged ==
    (last.op \in S3Operations /\ last.exc # NoExc) => LoggedWithContext(last)

\* a credential as the claim resolves it: the value in the settings when it is
\* set (there, not None, not empty), else the value of the environment variable
ResolvedCredential(attribute, variable) ==
    LET value == GetAttr(settings, attribute, PyNone)
    IN  IF Truthy(value) THEN value ELSE GetEnv(environ, variable)

\* C12 as stated: the S3 constructor resolves each credential from the
\* settings first and from its environment variable when the settings value
\* is absent, None or empty; it passes explicit credentials to the client only
\* when both resolved values are non-empty and the region alone otherwise;
\* bucket and region are the shared defaults when the settings have none.
C12_CredentialResolution ==
    (backend = "s3" /\ pc \in {"client", "constructed"})
    => LET access_key == ResolvedCredential("s3_aws_access_key_id",
                                            "LANGFLOW_S3_AWS_ACCESS_KEY_ID")
           secret_key == ResolvedCredential("s3_aws_secret_access_key",
                                            "LANGFLOW_S3_AWS_SECRET_ACCESS_KEY")
           region == IF "s3_region_name" \in DOMAIN settings
                     THEN settings["s3_region_name"] ELSE DEFAULT_S3_REGION_NAME
       IN  /\ bucket = IF "s3_bucket_name" \in DOMAIN settings
                       THEN settings["s3_bucket_name"] ELSE DEFAULT_S3_BUCKET_NAME
           /\ client_kwargs =
                 IF Truthy(access_key) /\ Truthy(secret_key)
                 THEN [region_name |-> region, aws_access_key_id |-> access_key,
                       aws_secret_access_key |-> secret_key]
                 ELSE [region_name |-> region]

\* build_full_path(identifier, file_name) of the backend in use
BuildFullPathNow(pair) ==
    IF backend = "local"
    THEN [ret |-> PyStr(LocalBuildFullPath(pair[1], pair[2])), exc |-> NoExc]
    ELSE S3BuildFullPath(PyStr(pair[1]), PyStr(pair[2]))

\* the locations that hold a stored object: the regular files inside the
\* identifier directories, the keys of the bucket
StoredLocations ==
    IF backend = "local"
    THEN {p \in DOMAIN fs : PathIsFile(fs, p) /\ Parent(p) # DataDir}
    ELSE DOMAIN objects
\* the bytes stored at a location
StoredAt(location) ==
    IF backend = "local" THEN fs[location].content ELSE objects[location].Body

\* C13: on each backend build_full_path(identifier, file_name) returns without
\* raising, and returns the location that save_file, get_file, get_file_size
\* and delete_file use for the pair: <data_dir>/<identifier>/<file_name> on
\* the local backend, tenant-<identifier>/<file_name> on the S3 backend; the
\* stored objects are those at the locations of the saved pairs, one a pair.
C13_BuildFullPath ==
    /\ \A pair \in Pairs :
          LET built == BuildFullPathNow(pair)
          IN  /\ built.exc = NoExc
              /\ built.ret = PyStr(IF backend = "local"
                                   THEN <<"d", "/">> \o pair[1] \o <<"/">> \o pair[2]
                                   ELSE <<"t", "e", "n", "a", "n", "t", "-">> \o pair[1]
                                            \o <<"/">> \o pair[2])
              /\ pair \in DOMAIN saved <=> built.ret.val \in StoredLocations
              /\ pair \in DOMAIN saved
                    => /\ StoredAt(built.ret.val) = saved[pair]
                       /\ GetNow(pair).ret = PyBytes(StoredAt(built.ret.val))
                       /\ SizeNow(pair).ret = PyInt(Len(StoredAt(built.ret.val)))
    /\ Cardinality(StoredLocations) = Cardinality(DOMAIN saved)
    /\ last.op = "build_full_path"
          => /\ last.exc = NoExc
             /\ last.ret = BuildFullPathNow(LastPair).ret

\* C13 witness: on the S3 backend build_full_path returned the key under which
\* a completed save_file of the same pair had stored its payload
C13_Witness ==
    /\ backend = "s3"
    /\ last.op = "build_full_path"
    /\ last.was # PyNone
    /\ last.ret.val \in DOMAIN objects
    /\ objects[last.ret.val].Body = last.was.val

\* the five permitted shapes of a message: ErrorLog and StreamURL are maps
\* (dicts), then any map, any ordered sequence (list), any string
PermittedShape(v) == v.type \in {"dict", "list", "str"}
\* the values of another type that the validation converts: bytes that
\* decode, to a string; for message a tuple or a set, to a list
ConvertedToStr(v) == v.type = "bytes" /\ Utf8Valid(v.val)
ConvertedToList(v) == v.type \in {"tuple", "set"}

SevenLogTypes ==
    {<<"m", "e", "s", "s", "a", "g", "e">>, <<"d", "a", "t", "a">>,
     <<"s", "t", "r", "e", "a", "m">>, <<"o", "b", "j", "e", "c", "t">>,
     <<"a", "r", "r", "a", "y">>, <<"t", "e", "x", "t">>,
     <<"u", "n", "k", "n", "o", "w", "n">>}

\* C15: LogType is a closed set of exactly 7 members: LogType(s) for each of
\* the strings message, data, stream, object, array, text, unknown gives a
\* member whose value is s, and LogType(s) for any other string fails.
C15_LogTypeClosed ==
    /\ Len(LogTypeMembers) = 7
    /\ LogTypeValues = SevenLogTypes
    /\ constructed.cls = "LogType"
          => LET s == constructed.args[1].val
             IN  IF s \in SevenLogTypes
                 THEN /\ constructed.exc = NoExc
                      /\ constructed.ret.type = "LogType"
                      /\ constructed.ret.val.value = s
                      /\ constructed.ret \in instances
                 ELSE /\ constructed.exc = Exc("ValueError")
                      /\ constructed.ret = PyNone
    /\ \A o \in instances : o.type = "LogType" => o.val.value \in SevenLogTypes

\* C15 witness: LogType("text") gave a member before, and LogType("TEXT"),
\* the name of that member, failed
C15_Witness ==
    /\ constructed.cls = "LogType"
    /\ constructed.args[1] = PyStr(<<"T", "E", "X", "T">>)
    /\ constructed.exc = Exc("ValueError")
    /\ \E o \in instances : o.type = "LogType" /\ o.val.name = "TEXT"

\* the namespace of langflow.custom once it has been imported
CustomNamespace == sys_modules[Custom]
\* the package a module belongs to: the first segment of its name
TopPackage(module) == module[1]

Ended(test) == harness.test = test /\ harness.result \in {"passed", "failed", "raised"}
\* the key sets of the four tables
CategoryKeys ==
    <<Keys(DIRECT_REEXPORT_MODULES), Keys(WILDCARD_REEXPORT_MODULES),
      Keys(COMPLEX_REEXPORT_MODULES), Keys(DYNAMIC_REEXPORT_MODULES)>>
PairwiseDisjoint(sets) ==
    \A j \in DOMAIN sets, k \in DOMAIN sets : j # k => sets[j] \cap sets[k] = {}

C18_AdvisoryNeverFail ==
    (Ended("backward") \/ Ended("performance")) => harness.result = "passed"

\* the file names stored under an identifier: those of the pairs with a
\* completed save_file that no completed delete_file followed
StoredNames(identifier) == {f \in FileNames : <<identifier, f>> \in DOMAIN saved}
\* the namespace of the identifier exists: its directory, on the local
\* backend; the S3 backend has no namespace to create
NamespaceExists(identifier) ==
    backend = "local" => PathIsDir(fs, Join(DataDir, identifier))

\* C19 as stated: after any sequence of completed save_file and delete_file
\* calls, list_files(identifier) on a namespace that exists returns, in some
\* order and without duplicates, exactly the file names stored directly
\* under the identifier, however many objects are stored under it.
C19_ListExact ==
    \A i \in Identifiers :
        (pc = "constructed" /\ NamespaceExists(i))
        => /\ ListNow(i).exc = NoExc
           /\ Range(ListNow(i).ret.val) = StoredNames(i)
           /\ Len(ListNow(i).ret.val) = Cardinality(StoredNames(i))

\* a step that is one call of an S3 operation
S3CallStep == backend = "s3" /\ nops' = nops + 1 /\ last'.op \in S3Operations
\* what C20 says of one call, with the bucket before and after it
OneRequestAfterValidation ==
    /\ last'.requests = (IF MissingArgument(last') \/ IllTypedData(last') THEN 0 ELSE 1)
    /\ last'.exc.cls \in {"ValueError", "TypeError"}
          => (last'.requests = 0 /\ objects' = objects)
    /\ last'.fault # "none"
          => (last'.requests = 1 /\ last'.exc # NoExc /\ objects' = objects)

\* C20: the S3 backend validates before it acts and never retries: every call
\* of save_file, get_file, list_files, get_file_size or delete_file sends
\* exactly one request to the provider when its arguments pass validation
\* and none when validation fails, so a call that ends in ValueError or
\* TypeError leaves the bucket contents unchanged, and a request that the
\* provider refused is not sent again: the call fails after that one request
\* and the bucket is as it was.
C20_ValidateThenOneRequest == [][S3CallStep => OneRequestAfterValidation]_vars

\* C20 witness: delete_file of a stored pair was refused by the provider
\* after one request, and the pair is still stored
C20_Witness ==
    /\ backend = "s3"
    /\ last.op = "delete_file"
    /\ last.fault = "AccessDenied"
    /\ last.requests = 1
    /\ last.exc # NoExc
    /\ S3BuildPath(last.identifier, last.file_name) \in DOMAIN objects

\* C21 as stated: on the local backend delete_file never raises because the
\* target is absent, also when two delete_file calls for one stored pair run
\* concurrently and both pass the existence check before either unlinks:
\* both calls complete without error.
C21_DeleteAbsentNoError ==
    \A t \in Tasks :
        task[t].op = "delete_file"
        => (task[t].pc # "raised" /\ task[t].exc # Exc("FileNotFoundError"))

\* the payloads that some save_file passed in full for the pair of call t:
\* the one stored before the concurrent calls began and the one of a
\* save_file call in flight on the same path
FullPayloads(t) ==
    {PyBytes(saved[pair]) :
        pair \in {q \in DOMAIN saved : q = <<task[t].identifier, task[t].file_name>>}}
    \cup {PyBytes(task[u].data) :
            u \in {v \in Tasks \ {t} : task[v].op = "save_file" /\ TaskPath(v) = TaskPath(t)}}

\* C22 as stated: on the local backend a get_file that runs concurrently with
\* a save_file on the same pair returns only a payload that some save_file
\* passed in full (the one stored before or the new one), never the empty or
\* partial content between the writer's truncation and its write, and it
\* either returns such a payload or fails with FileNotFoundError.
C22_ReadsWholePayload ==
    \A t \in Tasks :
        task[t].op = "get_file"
        => /\ task[t].pc = "done" => task[t].ret \in FullPayloads(t)
           /\ task[t].pc = "raised" => task[t].exc = Exc("FileNotFoundError")

\* a step that is one call of save_file or delete_file under the identifier
ChangeUnder(identifier) ==
    /\ nops' = nops + 1
    /\ last'.op \in {"save_file", "delete_file"}
    /\ last'.identifier = PyStr(identifier)
\* list_files(i) is not touched by a save_file or delete_file under j, and
\* returns only names that are stored under i
IsolatedFrom(i, j) ==
    /\ ChangeUnder(j) => Seen(ListNow(i))' = Seen(ListNow(i))
    /\ ListNow(i).exc = NoExc => Range(ListNow(i).ret.val) \subseteq StoredNames(i)

\* C23 as stated: list_files is isolated per identifier on both backends: for
\* any two distinct identifiers i and j, including the case where one is a
\* string prefix of the other, no save_file or delete_file call made under j
\* changes the result of list_files(i), and list_files(i) never returns a
\* name that was saved only under j.
C23_ListIsolatedAnyIdentifier ==
    [][\A i \in Identifiers \cup NestedIdentifiers, j \in Identifiers \cup NestedIdentifiers :
          i # j => IsolatedFrom(i, j)]_vars

\* C23 amended: the same for any two distinct identifiers that contain no
\* path separator (and file names that contain none), including the case
\* where one is a string prefix of the other.
C23_ListIsolated ==
    [][\A i \in Identifiers, j \in Identifiers : i # j => IsolatedFrom(i, j)]_vars

\* C23 witness: on the S3 backend a save_file under ab completed while a file
\* is stored under a, of which ab is an extension: list_files(a) returns the
\* name stored under a and not the name saved under ab
C23_Witness ==
    /\ backend = "s3"
    /\ last.op = "save_file"
    /\ last.identifier = PyStr(<<"a", "b">>)
    /\ last.exc = NoExc
    /\ StoredNames(<<"a">>) # {}
    /\ last.file_name.val \notin StoredNames(<<"a">>)
    /\ Range(ListNow(<<"a">>).ret.val) = StoredNames(<<"a">>)

\* a step that is a save_file under the identifier that completed
SavedUnder(identifier) ==
    /\ nops' = nops + 1
    /\ last'.op = "save_file"
    /\ last'.identifier = PyStr(identifier)
    /\ last'.exc = NoExc

\* C24: on the local backend the identifier namespace, once created, is never
\* removed: when a save_file under an identifier has completed,
\* list_files(identifier) succeeds, and once it succeeds it succeeds after
\* every later call; when delete_file has removed every file of the
\* identifier, list_files returns the empty list and does not fail with
\* FileNotFoundError.
C24_NamespaceStays ==
    [][backend = "local"
       => \A i \in Identifiers \cup NestedIdentifiers :
             /\ SavedUnder(i) => ListNow(i)'.exc = NoExc
             /\ ListNow(i).exc = NoExc => ListNow(i)'.exc = NoExc
             /\ (ListNow(i).exc = NoExc /\ StoredNames(i)' = {})
                   => Seen(ListNow(i))' = [exc |-> NoExc, ret |-> PyList(<<>>)]]_vars

\* C24 witness: on the local backend delete_file removed the only file of an
\* identifier, and list_files of the identifier returns the empty list
C24_Witness ==
    /\ backend = "local"
    /\ Answered(last, "delete_file")
    /\ last.was # PyNone
    /\ last.exc = NoExc
    /\ StoredNames(last.identifier.val) = {}
    /\ Seen(ListNow(last.identifier.val)) = [exc |-> NoExc, ret |-> PyList(<<>>)]

\* what is stored, as the backend holds it
Stored == IF backend = "local" THEN fs ELSE objects
\* a step that is one call of `op` on the pair
CallOn(ops, pair) ==
    /\ nops' = nops + 1
    /\ last'.op \in ops
    /\ last'.identifier = PyStr(pair[1])
    /\ last'.file_name = PyStr(pair[2])

\* C25: operations on one pair leave every other pair untouched: for two
\* distinct pairs whose identifiers and file names are non-empty and contain
\* no path separator, a save_file or delete_file on the first leaves the
\* results of get_file and get_file_size of the second unchanged, on both
\* backends; get_file, get_file_size, list_files, build_full_path and
\* teardown change nothing that is stored.
C25_OtherPairsUntouched ==
    [][/\ \A p \in Pairs, q \in Pairs :
             (p # q /\ CallOn({"save_file", "delete_file"}, p))
             => /\ Seen(GetNow(q))' = Seen(GetNow(q))
                /\ Seen(SizeNow(q))' = Seen(SizeNow(q))
       /\ (/\ nops' = nops + 1
           /\ last'.op \in {"get_file", "get_file_size", "list_files", "build_full_path",
                            "teardown"})
             => Stored' = Stored]_vars

\* C25 witness: a save_file stored a payload under one pair while another
\* pair of the same identifier holds a different payload, which get_file and
\* get_file_size still give
C25_Witness ==
    /\ Answered(last, "save_file")
    /\ last.exc = NoExc
    /\ \E q \in DOMAIN saved :
          /\ q # LastPair
          /\ q[1] = LastPair[1]
          /\ saved[q] # last.data.val
          /\ GetNow(q).ret = PyBytes(saved[q])
          /\ SizeNow(q).ret = PyInt(Len(saved[q]))

\* a step that is a save_file call that raised
SaveRaised == nops' = nops + 1 /\ last'.op = "save_file" /\ last'.exc # NoExc

\* C26 as stated: a local save_file that raises leaves the store observably
\* unchanged: when save_file fails at directory creation, at opening the file
\* or at writing, get_file and get_file_size of every pair and list_files of
\* every identifier (also whether it fails with FileNotFoundError) give the
\* same results as before the call; a payload stored before under the same
\* pair is still returned in full.
C26_FailedSaveChangesNothing ==
    [][(backend = "local" /\ SaveRaised)
       => /\ \A pair \in Pairs :
                /\ Seen(GetNow(pair))' = Seen(GetNow(pair))
                /\ Seen(SizeNow(pair))' = Seen(SizeNow(pair))
          /\ \A i \in Identifiers : Seen(ListNow(i))' = Seen(ListNow(i))]_vars

====
